---- MODULE Spec2Model ----
(***************************************************************************)
(* A model of the terminal emulator "rt": the screen buffer driven by the  *)
(* control-sequence decoder (src/src/terminal.rs) and the glyph atlas with *)
(* its LRU cache (src/src/atlas.rs), the loop of the renderer over the     *)
(* cells of a frame (src/src/render.rs), and the Text with its iterator    *)
(* (src/src/text.rs).                                                      *)
(*                                                                         *)
(* Bytes and characters are integers (a char is its code point).  Indices  *)
(* of the source are 0-based; sequences here are 1-based, so row i of the  *)
(* source is rows[i + 1] and column x of a row is row[x + 1].              *)
(***************************************************************************)
EXTENDS Integers, Sequences, FiniteSets

VARIABLES
    buffer,     \* Terminal.buffer: the TextBuffer record
    parser,     \* Terminal.parser: the retained decoder state
    atlas,      \* the InnerAtlas record: size, packer, glyph_cache
    ret,        \* the last get_or_create_glyph call: its key and what it returned
    issued,     \* history: per key, the rectangle first returned since the last growth
    held,       \* history: the same, forgotten also when the key is evicted
    used,       \* history: the keys in the order of their last use, latest first
    handed,     \* history: the rectangles handed out since the last growth
    frame,      \* the last State::render call: what it drew, whether it panicked
    text,       \* a Text (text.rs): its flat buffer, width, height and viewport
    iter,       \* the TextIterator borrowing text, with what it has yielded; or None
    pushed      \* history: the string pushed into text since Text::new, while
                \* nothing else was done to it; or None

vars == <<buffer, parser, atlas, ret, issued, held, used, handed, frame,
          text, iter, pushed>>

\* the variables of the Terminal and those of the glyph atlas
tvars == <<buffer, parser>>
avars == <<atlas, ret, issued, held, used, handed, frame>>

\* the variables of the Text
xvars == <<text, iter, pushed>>

----------------------------------------------------------------------------
(* Small helpers over integers and sequences.                              *)

Min(a, b) == IF a < b THEN a ELSE b

Max(a, b) == IF a > b THEN a ELSE b

\* usize::saturating_sub
SatSub(a, b) == IF a >= b THEN a - b ELSE 0

\* Vec::remove(i) for a 0-based index i < len
RemoveAt(s, i) == [j \in 1..(Len(s) - 1) |-> IF j <= i THEN s[j] ELSE s[j + 1]]

----------------------------------------------------------------------------
(* Cell and TextBuffer (terminal.rs 4-33).                                 *)

\* Option<u8>: None is <<>>, Some(v) is <<v>>
None == <<>>

Some(v) == <<v>>

\* #[derive(Default)] for Cell: char '\0', no colours, no attributes
DefaultCell == [char |-> 0, fg |-> None, bg |-> None,
                bold |-> FALSE, underline |-> FALSE]

\* Cell { char: c, ..Default::default() }
CellOf(c) == [DefaultCell EXCEPT !.char = c]

\* TextBuffer::new
NewTextBuffer(w, h) ==
    [rows |-> <<>>, width |-> w, height |-> h,
     viewport_top |-> 0, cursor_x |-> 0, cursor_y |-> 0]

\* TextBuffer::scroll_up
scroll_up(b, lines) ==
    IF b.viewport_top >= lines
    THEN [b EXCEPT !.viewport_top = b.viewport_top - lines]
    ELSE [b EXCEPT !.viewport_top = 0]

\* scroll_down without the clamp to the last row
scroll_down_unclamped(b, lines) ==
    [b EXCEPT !.viewport_top = b.viewport_top + lines]

\* TextBuffer::scroll_down
scroll_down(b, lines) ==
    IF b.viewport_top + lines < Len(b.rows)
    THEN [b EXCEPT !.viewport_top = b.viewport_top + lines]
    ELSE [b EXCEPT !.viewport_top = SatSub(Len(b.rows), 1)]

\* the "if self.cursor_y >= self.height { scroll_down(1); ... }" block that
\* insert_char (twice) and newline share
ClampCursorY(b) ==
    IF b.cursor_y >= b.height
    THEN [scroll_down(b, 1) EXCEPT !.cursor_y = b.height - 1]
    ELSE b

\* EnsureRow under a history limit of the scrollback: the oldest row is
\* dropped when a row is pushed
EnsureRow_capped(b) ==
    IF Len(b.rows) <= b.viewport_top + b.cursor_y
    THEN [b EXCEPT !.rows = IF @ = <<>> THEN <<<<>>>> ELSE Append(Tail(@), <<>>)]
    ELSE b

\* insert_char, lines 41-44: ensure the current row exists; at most one row
\* is pushed
EnsureRow(b) ==
    IF Len(b.rows) <= b.viewport_top + b.cursor_y
    THEN [b EXCEPT !.rows = Append(b.rows, <<>>)]
    ELSE b

\* PlaceCell that pushes the cell at the end of the row in every case
PlaceCell_pushing(b, c) ==
    IF b.viewport_top + b.cursor_y < Len(b.rows)
    THEN [b EXCEPT !.rows[b.viewport_top + b.cursor_y + 1] = Append(@, CellOf(c))]
    ELSE b

\* insert_char, lines 49-55: write the cell at the cursor, or push it at the
\* end of the row; nothing when the row does not exist
PlaceCell(b, c) ==
    IF b.viewport_top + b.cursor_y < Len(b.rows)
    THEN IF b.cursor_x < Len(b.rows[b.viewport_top + b.cursor_y + 1])
         THEN [b EXCEPT !.rows[b.viewport_top + b.cursor_y + 1][b.cursor_x + 1] =
                            CellOf(c)]
         ELSE [b EXCEPT !.rows[b.viewport_top + b.cursor_y + 1] =
                            Append(@, CellOf(c))]
    ELSE b

\* insert_char, lines 57-65: advance the cursor, wrapping at the width
AdvanceCursor(b) ==
    IF b.cursor_x + 1 >= b.width
    THEN ClampCursorY([b EXCEPT !.cursor_x = 0, !.cursor_y = b.cursor_y + 1])
    ELSE [b EXCEPT !.cursor_x = b.cursor_x + 1]

\* TextBuffer::insert_char
insert_char(b, c) ==
    AdvanceCursor(PlaceCell(EnsureRow(ClampCursorY(b)), c))

\* newline that forgets to scroll when the cursor leaves the viewport
newline_unclamped(b) ==
    [b EXCEPT !.cursor_x = 0, !.cursor_y = b.cursor_y + 1]

\* TextBuffer::newline
newline(b) ==
    ClampCursorY([b EXCEPT !.cursor_x = 0, !.cursor_y = b.cursor_y + 1])

\* TextBuffer::move_cursor
move_cursor(b, x, y) ==
    LET b1 == [b EXCEPT !.cursor_x = Min(x, b.width - 1), !.cursor_y = y]
    IN  IF b1.cursor_y >= b1.height
        THEN [scroll_down(b1, b1.cursor_y - b1.height + 1)
                EXCEPT !.cursor_y = b1.height - 1]
        ELSE b1

\* rows.get_mut(viewport_top + cursor_y) is Some
HasCursorRow(b) == b.viewport_top + b.cursor_y < Len(b.rows)

\* row.get_mut(cursor_x) is Some, for the cursor row
HasCursorCell(b) ==
    /\ HasCursorRow(b)
    /\ b.cursor_x < Len(b.rows[b.viewport_top + b.cursor_y + 1])

\* TextBuffer::reset_attributes: every cell of the cursor row
reset_attributes(b) ==
    IF HasCursorRow(b)
    THEN LET r == b.viewport_top + b.cursor_y + 1
         IN  [b EXCEPT !.rows[r] =
                [j \in 1..Len(b.rows[r]) |->
                    [b.rows[r][j] EXCEPT !.bold = FALSE, !.underline = FALSE,
                                         !.fg = None, !.bg = None]]]
    ELSE b

\* TextBuffer::set_bold
set_bold(b, bold) ==
    IF HasCursorCell(b)
    THEN [b EXCEPT !.rows[b.viewport_top + b.cursor_y + 1][b.cursor_x + 1].bold = bold]
    ELSE b

\* TextBuffer::set_underline
set_underline(b, underline) ==
    IF HasCursorCell(b)
    THEN [b EXCEPT !.rows[b.viewport_top + b.cursor_y + 1][b.cursor_x + 1].underline
                      = underline]
    ELSE b

\* TextBuffer::set_foreground_color
set_foreground_color(b, color) ==
    IF HasCursorCell(b)
    THEN [b EXCEPT !.rows[b.viewport_top + b.cursor_y + 1][b.cursor_x + 1].fg
                      = Some(color)]
    ELSE b

\* TextBuffer::set_background_color
set_background_color(b, color) ==
    IF HasCursorCell(b)
    THEN [b EXCEPT !.rows[b.viewport_top + b.cursor_y + 1][b.cursor_x + 1].bg
                      = Some(color)]
    ELSE b

\* the cells of `row` at 0-based columns lo..hi-1 reset to the default
EraseCols(row, lo, hi) ==
    [j \in 1..Len(row) |-> IF lo < j /\ j <= hi THEN DefaultCell ELSE row[j]]

\* TextBuffer::erase_screen_from_cursor: rows.skip(top + y), cells.skip(x)
erase_screen_from_cursor(b) ==
    [b EXCEPT !.rows =
        [i \in 1..Len(b.rows) |->
            IF i > b.viewport_top + b.cursor_y
            THEN EraseCols(b.rows[i], b.cursor_x, Len(b.rows[i]))
            ELSE b.rows[i]]]

\* TextBuffer::erase_screen_to_cursor: rows.take(top + y + 1), cells.take(x + 1)
erase_screen_to_cursor(b) ==
    [b EXCEPT !.rows =
        [i \in 1..Len(b.rows) |->
            IF i <= b.viewport_top + b.cursor_y + 1
            THEN EraseCols(b.rows[i], 0, b.cursor_x + 1)
            ELSE b.rows[i]]]

\* erase_screen that starts at the cursor row instead of the first row
erase_screen_below(b) ==
    [b EXCEPT !.rows =
        [i \in 1..Len(b.rows) |->
            IF i > b.viewport_top + b.cursor_y
            THEN EraseCols(b.rows[i], 0, Len(b.rows[i]))
            ELSE b.rows[i]]]

\* TextBuffer::erase_screen: every cell of every row
erase_screen(b) ==
    [b EXCEPT !.rows =
        [i \in 1..Len(b.rows) |-> EraseCols(b.rows[i], 0, Len(b.rows[i]))]]

\* TextBuffer::render_viewport: the characters of rows.skip(top).take(height),
\* one sequence of code points per row
render_viewport(b) ==
    [i \in 1..Min(b.height, SatSub(Len(b.rows), b.viewport_top)) |->
        [j \in 1..Len(b.rows[b.viewport_top + i]) |->
            b.rows[b.viewport_top + i][j].char]]

\* the cell the viewport shows at column x of its line y: the stored cell,
\* and the default (empty) cell where the scrollback holds none
ViewCell(b, x, y) ==
    IF b.viewport_top + y < Len(b.rows)
       /\ x < Len(b.rows[b.viewport_top + y + 1])
    THEN b.rows[b.viewport_top + y + 1][x + 1]
    ELSE DefaultCell

----------------------------------------------------------------------------
(* impl Perform for TextBuffer (terminal.rs 187-452).  `params` is the     *)
(* sequence of CSI parameters the decoder hands over; each parameter is    *)
(* the sequence of its ':'-separated values, and the handlers read only    *)
(* its first value, p.get(0).                                              *)

\* p.get(0).unwrap_or(&d) for one parameter p
Get0(p, d) == IF Len(p) = 0 THEN d ELSE p[1]

\* params.iter().next().map(|p| p.get(0).unwrap_or(&d)).unwrap_or(&d)
FirstParam(params, d) == IF Len(params) = 0 THEN d ELSE Get0(params[1], d)

\* Perform::print
print(b, c) == insert_char(b, c)

\* Perform::execute
execute(b, byte) ==
    CASE byte = 10 -> newline(b)                                  \* b'\n'
      [] byte = 13 -> [b EXCEPT !.cursor_x = 0]                   \* b'\r'
      [] byte = 7  -> b                                           \* bell
      [] byte = 8  -> IF b.cursor_x > 0                           \* backspace
                      THEN [b EXCEPT !.cursor_x = b.cursor_x - 1]
                      ELSE b
      [] byte = 9  ->                                             \* tab
            LET b1 == [b EXCEPT !.cursor_x = b.cursor_x + (8 - (b.cursor_x % 8))]
            IN  IF b1.cursor_x >= b1.width THEN newline(b1) ELSE b1
      [] OTHER     -> b                                           \* logged only

\* one parameter of CSI m (the body of the loop, terminal.rs 331-355)
sgr_param(b, p) ==
    CASE p = 0             -> reset_attributes(b)
      [] p = 1             -> set_bold(b, TRUE)
      [] p = 4             -> set_underline(b, TRUE)
      [] p >= 30 /\ p <= 37 -> set_foreground_color(b, p - 30)
      [] p >= 40 /\ p <= 47 -> set_background_color(b, p - 40)
      [] OTHER             -> b

\* CSI m: for param in params { ... }
RECURSIVE sgr(_, _)
sgr(b, params) ==
    IF params = <<>> THEN b
    ELSE sgr(sgr_param(b, Get0(Head(params), 0)), Tail(params))

\* CSI K: erase in line
erase_line_truncating(b, mode) ==
    IF HasCursorRow(b)
    THEN LET r   == b.viewport_top + b.cursor_y + 1
             row == b.rows[r]
         IN  CASE mode = 0 -> [b EXCEPT !.rows[r] = SubSeq(row, 1, Min(b.cursor_x, Len(row)))]
               [] mode = 1 -> [b EXCEPT !.rows[r] = EraseCols(row, 0, b.cursor_x + 1)]
               [] mode = 2 -> [b EXCEPT !.rows[r] = <<>>]
               [] OTHER    -> b
    ELSE b

\* CSI K whose mode 1 stops before the cursor's column
erase_line_before_cursor(b, mode) ==
    IF HasCursorRow(b)
    THEN LET r   == b.viewport_top + b.cursor_y + 1
             row == b.rows[r]
         IN  CASE mode = 0 -> [b EXCEPT !.rows[r] = EraseCols(row, b.cursor_x, Len(row))]
               [] mode = 1 -> [b EXCEPT !.rows[r] = EraseCols(row, 0, b.cursor_x)]
               [] mode = 2 -> [b EXCEPT !.rows[r] = EraseCols(row, 0, Len(row))]
               [] OTHER    -> b
    ELSE b

\* CSI K: erase in line (terminal.rs 266-298)
erase_line(b, mode) ==
    IF HasCursorRow(b)
    THEN LET r   == b.viewport_top + b.cursor_y + 1
             row == b.rows[r]
         IN  CASE mode = 0 -> [b EXCEPT !.rows[r] = EraseCols(row, b.cursor_x, Len(row))]
               [] mode = 1 -> [b EXCEPT !.rows[r] = EraseCols(row, 0, b.cursor_x + 1)]
               [] mode = 2 -> [b EXCEPT !.rows[r] = EraseCols(row, 0, Len(row))]
               [] OTHER    -> b
    ELSE b

\* CSI P that takes the cells off the end of the row instead of shifting
delete_chars_truncating(row, x, count) ==
    SubSeq(row, 1, Len(row) - Min(count, SatSub(Len(row), x)))

\* CSI P: for _ in 0..count { if cursor_x < row.len() { row.remove(cursor_x) } }
RECURSIVE delete_chars(_, _, _)
delete_chars(row, x, count) ==
    IF count = 0 \/ x >= Len(row) THEN row
    ELSE delete_chars(RemoveAt(row, x), x, count - 1)

\* Perform::csi_dispatch (intermediates and the ignore flag are not read)
csi_dispatch(b, params, action) ==
    CASE action = 65 ->                                               \* 'A'
            [b EXCEPT !.cursor_y = SatSub(b.cursor_y, FirstParam(params, 1))]
      [] action = 66 ->                                               \* 'B'
            [b EXCEPT !.cursor_y =
                Min(b.cursor_y + FirstParam(params, 1), b.height - 1)]
      [] action = 67 ->                                               \* 'C'
            [b EXCEPT !.cursor_x =
                Min(b.cursor_x + FirstParam(params, 1), b.width - 1)]
      [] action = 68 ->                                               \* 'D'
            [b EXCEPT !.cursor_x = SatSub(b.cursor_x, FirstParam(params, 1))]
      [] action = 75 -> erase_line(b, FirstParam(params, 0))          \* 'K'
      [] action = 72 \/ action = 102 ->                               \* 'H' | 'f'
            \* both y and x are read with params.iter().next(): the first one
            LET y == FirstParam(params, 1)
                x == FirstParam(params, 1)
            IN  move_cursor(b, SatSub(x, 1), SatSub(y, 1))
      [] action = 114 -> b                                            \* 'r'
      [] action = 109 -> sgr(b, params)                               \* 'm'
      [] action = 108 -> b                                            \* 'l'
      [] action = 104 -> b                                            \* 'h'
      [] action = 74 ->                                               \* 'J'
            LET mode == FirstParam(params, 0)
            IN  CASE mode = 0 -> erase_screen_from_cursor(b)
                  [] mode = 1 -> erase_screen_to_cursor(b)
                  [] mode = 2 -> erase_screen(b)
                  [] OTHER    -> b
      [] action = 80 ->                                               \* 'P'
            IF HasCursorRow(b)
            THEN LET r == b.viewport_top + b.cursor_y + 1
                 IN  [b EXCEPT !.rows[r] =
                        delete_chars(b.rows[r], b.cursor_x, FirstParam(params, 1))]
            ELSE b
      [] OTHER -> b

\* esc_dispatch that acts on ESC c (reset to initial state)
esc_dispatch_reset(b, byte) ==
    IF byte = 99 THEN NewTextBuffer(b.width, b.height) ELSE b

\* Perform::esc_dispatch: every arm only logs
esc_dispatch(b, byte) == b

\* Perform::osc_dispatch
osc_dispatch(b) == b

\* Perform::hook
hook(b) == b

\* Perform::put
put(b, byte) == b

\* Perform::unhook
unhook(b) == b

----------------------------------------------------------------------------
(* The decoder: anstyle_parse::Parser<DefaultCharAccumulator>, the crate   *)
(* Terminal::process_input drives one byte at a time (terminal.rs 467-471).*)
(* It is the state machine of the DEC ANSI parser with UTF-8 decoded out   *)
(* of band.  The payload of an OSC string is not kept: osc_dispatch never   *)
(* reads it.  Parameters are kept as the crate's Params does: `params` is  *)
(* the sequence of parameters, each the sequence of its values (a ';'      *)
(* closes a parameter, a ':' adds a value to the open one), and            *)
(* `current_subparams` counts the values of the open parameter.  Consumed  *)
(* parameters, intermediates and the ignore flag stay in place after a     *)
(* dispatch until the next entry to Escape / CsiEntry / DcsEntry clears    *)
(* them.                                                                   *)

\* Parser::new
NewParser ==
    [state |-> "Ground", params |-> <<>>, current_subparams |-> 0, param |-> 0,
     intermediates |-> <<>>, ignoring |-> FALSE,
     utf8 |-> [state |-> "Ground", point |-> 0]]

\* C0 controls that most states execute: 0x00..=0x17, 0x19, 0x1c..=0x1f
IsC0(b) == (b >= 0 /\ b <= 23) \/ b = 25 \/ (b >= 28 /\ b <= 31)

InRange(b, lo, hi) == b >= lo /\ b <= hi

\* one row of the transition table: <<next state, action>>, where the next
\* state "Anywhere" means "stay" (the table entry names only an action)
StateRow(state, b) ==
    CASE state = "Ground" ->
            IF IsC0(b) THEN <<"Anywhere", "Execute">>
            ELSE IF InRange(b, 32, 127) THEN <<"Anywhere", "Print">>
            ELSE IF InRange(b, 128, 143) \/ InRange(b, 145, 154) \/ b = 156
                 THEN <<"Anywhere", "Execute">>
            ELSE IF InRange(b, 194, 244) THEN <<"Utf8", "BeginUtf8">>
            ELSE <<"Anywhere", "Nop">>
      [] state = "Escape" ->
            IF IsC0(b) THEN <<"Anywhere", "Execute">>
            ELSE IF b = 127 THEN <<"Anywhere", "Ignore">>
            ELSE IF InRange(b, 32, 47) THEN <<"EscapeIntermediate", "Collect">>
            ELSE IF b = 91 THEN <<"CsiEntry", "Nop">>
            ELSE IF b = 93 THEN <<"OscString", "Nop">>
            ELSE IF b = 80 THEN <<"DcsEntry", "Nop">>
            ELSE IF b = 88 \/ b = 94 \/ b = 95 THEN <<"SosPmApcString", "Nop">>
            ELSE IF InRange(b, 48, 126) THEN <<"Ground", "EscDispatch">>
            ELSE <<"Anywhere", "Nop">>
      [] state = "EscapeIntermediate" ->
            IF IsC0(b) THEN <<"Anywhere", "Execute">>
            ELSE IF InRange(b, 32, 47) THEN <<"Anywhere", "Collect">>
            ELSE IF b = 127 THEN <<"Anywhere", "Ignore">>
            ELSE IF InRange(b, 48, 126) THEN <<"Ground", "EscDispatch">>
            ELSE <<"Anywhere", "Nop">>
      [] state = "CsiEntry" ->
            IF IsC0(b) THEN <<"Anywhere", "Execute">>
            ELSE IF b = 127 THEN <<"Anywhere", "Ignore">>
            ELSE IF InRange(b, 32, 47) THEN <<"CsiIntermediate", "Collect">>
            ELSE IF InRange(b, 48, 59) THEN <<"CsiParam", "Param">>
            ELSE IF InRange(b, 60, 63) THEN <<"CsiParam", "Collect">>
            ELSE IF InRange(b, 64, 126) THEN <<"Ground", "CsiDispatch">>
            ELSE <<"Anywhere", "Nop">>
      [] state = "CsiParam" ->
            IF IsC0(b) THEN <<"Anywhere", "Execute">>
            ELSE IF InRange(b, 48, 59) THEN <<"Anywhere", "Param">>
            ELSE IF b = 127 THEN <<"Anywhere", "Ignore">>
            ELSE IF InRange(b, 60, 63) THEN <<"CsiIgnore", "Nop">>
            ELSE IF InRange(b, 32, 47) THEN <<"CsiIntermediate", "Collect">>
            ELSE IF InRange(b, 64, 126) THEN <<"Ground", "CsiDispatch">>
            ELSE <<"Anywhere", "Nop">>
      [] state = "CsiIntermediate" ->
            IF IsC0(b) THEN <<"Anywhere", "Execute">>
            ELSE IF InRange(b, 32, 47) THEN <<"Anywhere", "Collect">>
            ELSE IF b = 127 THEN <<"Anywhere", "Ignore">>
            ELSE IF InRange(b, 48, 63) THEN <<"CsiIgnore", "Nop">>
            ELSE IF InRange(b, 64, 126) THEN <<"Ground", "CsiDispatch">>
            ELSE <<"Anywhere", "Nop">>
      [] state = "CsiIgnore" ->
            IF IsC0(b) THEN <<"Anywhere", "Execute">>
            ELSE IF InRange(b, 32, 63) \/ b = 127 THEN <<"Anywhere", "Ignore">>
            ELSE IF InRange(b, 64, 126) THEN <<"Ground", "Nop">>
            ELSE <<"Anywhere", "Nop">>
      [] state = "DcsEntry" ->
            IF IsC0(b) \/ b = 127 THEN <<"Anywhere", "Ignore">>
            ELSE IF InRange(b, 32, 47) THEN <<"DcsIntermediate", "Collect">>
            ELSE IF InRange(b, 48, 59) THEN <<"DcsParam", "Param">>
            ELSE IF InRange(b, 60, 63) THEN <<"DcsParam", "Collect">>
            ELSE IF InRange(b, 64, 126) THEN <<"DcsPassthrough", "Nop">>
            ELSE <<"Anywhere", "Nop">>
      [] state = "DcsParam" ->
            IF IsC0(b) \/ b = 127 THEN <<"Anywhere", "Ignore">>
            ELSE IF InRange(b, 48, 59) THEN <<"Anywhere", "Param">>
            ELSE IF InRange(b, 60, 63) THEN <<"DcsIgnore", "Nop">>
            ELSE IF InRange(b, 32, 47) THEN <<"DcsIntermediate", "Collect">>
            ELSE IF InRange(b, 64, 126) THEN <<"DcsPassthrough", "Nop">>
            ELSE <<"Anywhere", "Nop">>
      [] state = "DcsIntermediate" ->
            IF IsC0(b) \/ b = 127 THEN <<"Anywhere", "Ignore">>
            ELSE IF InRange(b, 32, 47) THEN <<"Anywhere", "Collect">>
            ELSE IF InRange(b, 48, 63) THEN <<"DcsIgnore", "Nop">>
            ELSE IF InRange(b, 64, 126) THEN <<"DcsPassthrough", "Nop">>
            ELSE <<"Anywhere", "Nop">>
      [] state = "DcsPassthrough" ->
            IF IsC0(b) \/ InRange(b, 32, 126) THEN <<"Anywhere", "Put">>
            ELSE IF b = 127 THEN <<"Anywhere", "Ignore">>
            ELSE IF b = 156 THEN <<"Ground", "Nop">>
            ELSE <<"Anywhere", "Nop">>
      [] state = "DcsIgnore" ->
            IF IsC0(b) \/ InRange(b, 32, 127) THEN <<"Anywhere", "Ignore">>
            ELSE IF b = 156 THEN <<"Ground", "Nop">>
            ELSE <<"Anywhere", "Nop">>
      [] state = "OscString" ->
            IF b = 7 THEN <<"Ground", "Nop">>
            ELSE IF IsC0(b) THEN <<"Anywhere", "Ignore">>
            ELSE IF InRange(b, 32, 255) THEN <<"Anywhere", "OscPut">>
            ELSE <<"Anywhere", "Nop">>
      [] state = "SosPmApcString" ->
            IF IsC0(b) \/ InRange(b, 32, 127) THEN <<"Anywhere", "Ignore">>
            ELSE IF b = 156 THEN <<"Ground", "Nop">>
            ELSE <<"Anywhere", "Nop">>
      [] OTHER -> <<"Anywhere", "Nop">>

\* table::state_change: the transitions of "anywhere" (CAN, SUB, ESC) win
state_change(state, b) ==
    IF b = 24 \/ b = 26 THEN <<"Ground", "Execute">>
    ELSE IF b = 27 THEN <<"Escape", "Nop">>
    ELSE StateRow(state, b)

\* utf8parse's state machine, which DefaultCharAccumulator wraps: the next
\* state, the code point so far, and `out`: <<>> while the character is
\* incomplete, <<c>> when it is complete, <<65533>> (U+FFFD) when the
\* sequence is invalid
utf8_add(u, b) ==
    LET cont(next, shift) ==
            IF InRange(b, 128, 191)
            THEN IF next = "Ground"
                 THEN [state |-> "Ground", point |-> 0,
                       out |-> <<u.point + (b % 64)>>]
                 ELSE [state |-> next, point |-> u.point + (b % 64) * shift,
                       out |-> <<>>]
            ELSE [state |-> "Ground", point |-> 0, out |-> <<65533>>]
        narrow(lo, hi, next, shift) ==
            IF InRange(b, lo, hi)
            THEN [state |-> next, point |-> u.point + (b % 64) * shift,
                  out |-> <<>>]
            ELSE [state |-> "Ground", point |-> 0, out |-> <<65533>>]
    IN  CASE u.state = "Ground" ->
                IF InRange(b, 0, 127)
                THEN [state |-> "Ground", point |-> 0, out |-> <<b>>]
                ELSE IF InRange(b, 194, 223)
                THEN [state |-> "Tail1", point |-> (b % 32) * 64, out |-> <<>>]
                ELSE IF InRange(b, 224, 239)
                THEN [state |-> IF b = 224 THEN "U3_2_e0"
                                ELSE IF b = 237 THEN "U3_2_ed" ELSE "Tail2",
                      point |-> (b % 16) * 4096, out |-> <<>>]
                ELSE IF InRange(b, 240, 244)
                THEN [state |-> IF b = 240 THEN "Utf8_4_3_f0"
                                ELSE IF b = 244 THEN "Utf8_4_3_f4" ELSE "Tail3",
                      point |-> (b % 8) * 262144, out |-> <<>>]
                ELSE [state |-> "Ground", point |-> 0, out |-> <<65533>>]
          [] u.state = "Tail1"       -> cont("Ground", 1)
          [] u.state = "Tail2"       -> cont("Tail1", 64)
          [] u.state = "Tail3"       -> cont("Tail2", 4096)
          [] u.state = "U3_2_e0"     -> narrow(160, 191, "Tail1", 64)
          [] u.state = "U3_2_ed"     -> narrow(128, 159, "Tail1", 64)
          [] u.state = "Utf8_4_3_f0" -> narrow(144, 191, "Tail2", 4096)
          [] u.state = "Utf8_4_3_f4" -> narrow(128, 143, "Tail2", 4096)
          [] OTHER -> [state |-> "Ground", point |-> 0, out |-> <<65533>>]

\* a Terminal value: the buffer, the decoder, and the callbacks run so far
\* by the call in progress
Term(b, p, ev) == [buffer |-> b, parser |-> p, events |-> ev]

\* one entry of the callback log
Event(kind, byte, params) == [kind |-> kind, byte |-> byte, params |-> params]

\* Parser::process_utf8
process_utf8(t, b) ==
    LET u == utf8_add(t.parser.utf8, b)
        p == [t.parser EXCEPT !.utf8 = [state |-> u.state, point |-> u.point]]
    IN  IF u.out = <<>>
        THEN Term(t.buffer, p, t.events)
        ELSE Term(print(t.buffer, u.out[1]),
                  [p EXCEPT !.state = "Ground"],
                  Append(t.events, Event("print", u.out[1], <<>>)))

\* Params::len: the number of values, sub-parameters included
RECURSIVE ParamsLen(_)
ParamsLen(params) ==
    IF params = <<>> THEN 0 ELSE Len(Head(params)) + ParamsLen(Tail(params))

\* Params::is_full (MAX_PARAMS = 32)
is_full(p) == ParamsLen(p.params) = 32

\* the value `item` is stored: in the open parameter if there is one,
\* otherwise in a new parameter
StoreValue(p, item) ==
    IF p.current_subparams > 0
    THEN [p.params EXCEPT ![Len(p.params)] = Append(@, item)]
    ELSE Append(p.params, <<item>>)

\* Params::push: `item` ends the open parameter
Params_push(p, item) ==
    [p EXCEPT !.params = StoreValue(p, item), !.current_subparams = 0]

\* Params::extend: `item` is a value of a parameter that stays open
Params_extend(p, item) ==
    [p EXCEPT !.params = StoreValue(p, item),
              !.current_subparams = p.current_subparams + 1]

\* the parameters as handed to csi_dispatch / hook: the pending one is pushed
\* unless the list is full, and then `ignoring` is set
PushParam(p) ==
    IF is_full(p)
    THEN [p EXCEPT !.ignoring = TRUE]
    ELSE Params_push(p, p.param)

\* Action::Clear
ClearParams(p) ==
    [p EXCEPT !.params = <<>>, !.current_subparams = 0, !.param = 0,
              !.intermediates = <<>>, !.ignoring = FALSE]

\* Parser::perform_action
perform_action(t, action, b) ==
    LET p == t.parser
    IN  CASE action = "Print" ->
                Term(print(t.buffer, b), p, Append(t.events, Event("print", b, <<>>)))
          [] action = "Execute" ->
                Term(execute(t.buffer, b), p,
                     Append(t.events, Event("execute", b, <<>>)))
          [] action = "CsiDispatch" ->
                LET q == PushParam(p)
                IN  Term(csi_dispatch(t.buffer, q.params, b), q,
                         Append(t.events, Event("csi_dispatch", b, q.params)))
          [] action = "EscDispatch" ->
                Term(esc_dispatch(t.buffer, b), p,
                     Append(t.events, Event("esc_dispatch", b, <<>>)))
          [] action = "Hook" ->
                LET q == PushParam(p)
                IN  Term(hook(t.buffer), q,
                         Append(t.events, Event("hook", b, q.params)))
          [] action = "Put" ->
                Term(put(t.buffer, b), p, Append(t.events, Event("put", b, <<>>)))
          [] action = "Unhook" ->
                Term(unhook(t.buffer), p, Append(t.events, Event("unhook", b, <<>>)))
          [] action = "OscEnd" ->
                Term(osc_dispatch(t.buffer), p,
                     Append(t.events, Event("osc_dispatch", b, <<>>)))
          [] action = "Collect" ->
                IF Len(p.intermediates) = 2
                THEN Term(t.buffer, [p EXCEPT !.ignoring = TRUE], t.events)
                ELSE Term(t.buffer,
                          [p EXCEPT !.intermediates = Append(p.intermediates, b)],
                          t.events)
          [] action = "Param" ->
                IF is_full(p)
                THEN Term(t.buffer, [p EXCEPT !.ignoring = TRUE], t.events)
                ELSE IF b = 59
                THEN Term(t.buffer,
                          [Params_push(p, p.param) EXCEPT !.param = 0], t.events)
                ELSE IF b = 58
                THEN Term(t.buffer,
                          [Params_extend(p, p.param) EXCEPT !.param = 0], t.events)
                ELSE Term(t.buffer,
                          [p EXCEPT !.param = Min(Min(p.param * 10, 65535) + (b - 48),
                                                  65535)],
                          t.events)
          [] action = "Clear" -> Term(t.buffer, ClearParams(p), t.events)
          [] action = "BeginUtf8" -> process_utf8(t, b)
          [] OTHER -> t      \* Nop, Ignore, OscStart, OscPut

\* the action a state runs when it is left
ExitAction(state) ==
    CASE state = "DcsPassthrough" -> "Unhook"
      [] state = "OscString" -> "OscEnd"
      [] OTHER -> "Nop"

\* the action a state runs when it is entered
EntryAction(state) ==
    CASE state \in {"CsiEntry", "DcsEntry", "Escape"} -> "Clear"
      [] state = "DcsPassthrough" -> "Hook"
      [] state = "OscString" -> "OscStart"
      [] OTHER -> "Nop"

\* self.state = state
EnterState(t, state) ==
    Term(t.buffer, [t.parser EXCEPT !.state = state], t.events)

\* Parser::perform_state_change: exit action of the old state, the
\* transition's action, entry action of the new state
perform_state_change(t, state, action, b) ==
    IF state = "Anywhere"
    THEN perform_action(t, action, b)
    ELSE EnterState(
            perform_action(
                perform_action(
                    perform_action(t, ExitAction(t.parser.state), b),
                    action, b),
                EntryAction(state), b),
            state)

\* Parser::advance
advance(t, b) ==
    IF t.parser.state = "Utf8"
    THEN process_utf8(t, b)
    ELSE LET sc == state_change(t.parser.state, b)
         IN  perform_state_change(t, sc[1], sc[2], b)

\* Terminal::new
NewTerminal(w, h) == Term(NewTextBuffer(w, h), NewParser, <<>>)

\* for byte in input { self.parser.advance(&mut self.buffer, *byte) }
RECURSIVE AdvanceAll(_, _)
AdvanceAll(t, input) ==
    IF input = <<>> THEN t
    ELSE AdvanceAll(advance(t, Head(input)), Tail(input))

\* process_input that builds a new Parser for every call
process_input_fresh_parser(t, input) ==
    AdvanceAll([t EXCEPT !.parser = NewParser], input)

\* Terminal::process_input: the loop runs on the Terminal's own parser,
\* which keeps its state from one call to the next
process_input(t, input) == AdvanceAll(t, input)

\* f32 "as usize" for the deltas of the model, which are given in halves of
\* a row (d stands for d / 2): truncation toward zero, negatives give 0
AsUsize(d) == IF d <= 0 THEN 0 ELSE d \div 2

\* scroll_buffer without the clamp of delta
scroll_buffer_unclamped(t, delta) ==
    IF delta > 0
    THEN [t EXCEPT !.buffer = scroll_up(t.buffer, AsUsize(delta))]
    ELSE [t EXCEPT !.buffer = scroll_down(t.buffer, AsUsize(0 - delta))]

\* scroll_buffer that stops scrolling down at the last full page
scroll_buffer_paged(t, delta) ==
    LET d == Max(0 - 10, Min(delta, 10))
        b == t.buffer
    IN  IF d > 0
        THEN [t EXCEPT !.buffer = scroll_up(b, AsUsize(d))]
        ELSE [t EXCEPT !.buffer.viewport_top =
                Max(b.viewport_top,
                    Min(b.viewport_top + AsUsize(0 - d),
                        SatSub(Len(b.rows), b.height)))]

\* Terminal::scroll_buffer; delta.clamp(-5.0, 5.0) is -10..10 in halves
scroll_buffer(t, delta) ==
    LET d == Max(0 - 10, Min(delta, 10))
    IN  IF d > 0
        THEN [t EXCEPT !.buffer = scroll_up(t.buffer, AsUsize(d))]
        ELSE [t EXCEPT !.buffer = scroll_down(t.buffer, AsUsize(0 - d))]

----------------------------------------------------------------------------
(* The glyph atlas (atlas.rs).  Lengths are counted in units of 256        *)
(* pixels, so that the 256 pixels of INITIAL_SIZE are 1.  The packer is    *)
(* the guillotine allocator of the guillotiere crate: the rectangles it    *)
(* has handed out and its free rectangles; nothing is ever deallocated.    *)
(* The cache is the sequence of its entries, most recently used first.     *)

\* InnerAtlas::INITIAL_SIZE
INITIAL_SIZE == 1

\* the capacity of glyph_cache, LruCache::new(1000) in the source
CacheCapacity == 2

\* the largest surface of the model takes at most this many rectangles
MaxAllocs == 4

\* the sizes the surface takes in the model: the initial one and two
\* doublings
AtlasSizes == {INITIAL_SIZE, 2 * INITIAL_SIZE, 4 * INITIAL_SIZE}

\* 'A', 'B', 'C', 'D' and the space
Characters == {65, 66, 67, 68, 32}

\* config FONT_SIZE
FONT_SIZE == 16

\* a font size at which a letter is three times as wide and as high as the
\* initial surface
LARGE_FONT_SIZE == 768

FontSizes == {FONT_SIZE}

\* struct CacheKey
CacheKey(character, font_size) ==
    [character |-> character, font_size |-> font_size]

\* 'W' at the large font size
LargeKey == CacheKey(87, LARGE_FONT_SIZE)

Keys == {CacheKey(c, f) : c \in Characters, f \in FontSizes} \cup {LargeKey}

\* struct GlyphDetails
GlyphDetails(x, y, width, height) ==
    [x |-> x, y |-> y, width |-> width, height |-> height]

\* font.rasterize(character, font_size), its metrics only: the space has an
\* empty bitmap, the letters one of 1 x 1, a letter at the large font size
\* one of 3 x 3
rasterize(key) ==
    IF key.character = 32 THEN [width |-> 0, height |-> 0]
    ELSE IF key.font_size = LARGE_FONT_SIZE THEN [width |-> 3, height |-> 3]
    ELSE [width |-> 1, height |-> 1]

\* two rectangles share a point
Overlap(r1, r2) ==
    /\ r1.x < r2.x + r2.width  /\ r2.x < r1.x + r1.width
    /\ r1.y < r2.y + r2.height /\ r2.y < r1.y + r1.height

\* AtlasAllocator::new(size2(size, size)): nothing is allocated, the whole
\* surface is one free rectangle
NewPacker(size) ==
    [allocated |-> {}, free |-> {GlyphDetails(0, 0, size, size)}]

\* the two ways the guillotine cuts what is left of the free rectangle f
\* when w x h is taken at its corner: the strip to the right beside the
\* taken part and the full width below, or the full height to the right
\* and the strip below the taken part; empty rectangles are dropped
Guillotine(f, w, h) ==
    LET keep(rs) == {r \in rs : r.width > 0 /\ r.height > 0}
    IN  {keep({GlyphDetails(f.x + w, f.y, f.width - w, h),
               GlyphDetails(f.x, f.y + h, f.width, f.height - h)}),
         keep({GlyphDetails(f.x + w, f.y, f.width - w, f.height),
               GlyphDetails(f.x, f.y + h, w, f.height - h)})}

\* packer.allocate(size2(w, h)): a free rectangle that is large enough is
\* chosen, the allocation is put at its corner and the rest is cut in two;
\* which rectangle and which cut are the allocator's choice, so every one
\* is an outcome.  The empty set is the allocation failing: no free
\* rectangle is large enough
allocate(packer, w, h) ==
    UNION {{[rect   |-> GlyphDetails(f.x, f.y, w, h),
             packer |-> [allocated |-> packer.allocated
                                           \cup {GlyphDetails(f.x, f.y, w, h)},
                         free      |-> (packer.free \ {f}) \cup rest]] :
                rest \in Guillotine(f, w, h)} :
           f \in {g \in packer.free : w <= g.width /\ h <= g.height}}

\* the position of key in the cache, 0 when it is not there
CacheIndex(cache, key) ==
    IF \E i \in 1..Len(cache) : cache[i].key = key
    THEN CHOOSE i \in 1..Len(cache) : cache[i].key = key
    ELSE 0

\* LruCache::get that misses every key
cache_get_miss(cache, key) == [found |-> FALSE, cache |-> cache]

\* LruCache::get: a hit moves the entry to the most recently used end
cache_get(cache, key) ==
    LET i == CacheIndex(cache, key)
    IN  IF i = 0
        THEN [found |-> FALSE, cache |-> cache]
        ELSE [found |-> TRUE, details |-> cache[i].details,
              cache |-> <<cache[i]>> \o RemoveAt(cache, i - 1)]

\* LruCache::put: replaces the value of a key that is there, else evicts the
\* least recently used entry of a full cache; the entry becomes the most
\* recently used one
cache_put(cache, key, details) ==
    LET i == CacheIndex(cache, key)
        e == [key |-> key, details |-> details]
    IN  IF i # 0 THEN <<e>> \o RemoveAt(cache, i - 1)
        ELSE IF Len(cache) = CacheCapacity
        THEN <<e>> \o SubSeq(cache, 1, Len(cache) - 1)
        ELSE <<e>> \o cache

\* InnerAtlas::new
NewInnerAtlas ==
    [size |-> INITIAL_SIZE, packer |-> NewPacker(INITIAL_SIZE),
     glyph_cache |-> <<>>,
     panicked |-> FALSE]


\* the loop of InnerAtlas::grow over the collected cache items: each is
\* rasterized again, allocated in the new packer and put back into the
\* cache with its new rectangle; a failed allocation is the panic of expect
RECURSIVE grow_items(_, _, _)
grow_items(items, new_packer, cache) ==
    IF items = <<>>
    THEN {[packer |-> new_packer, glyph_cache |-> cache, panicked |-> FALSE]}
    ELSE LET key     == Head(items).key
             metrics == rasterize(key)
             rs      == allocate(new_packer, metrics.width, metrics.height)
         IN  IF rs = {}
             THEN {[packer |-> new_packer, glyph_cache |-> cache, panicked |-> TRUE]}
             ELSE UNION {grow_items(Tail(items), r.packer,
                                    cache_put(cache, key, r.rect)) : r \in rs}

\* grow that doubles the surface and renews the packer, but leaves the
\* rectangles of the cache as they were
grow_stale(a) ==
    {[size |-> a.size * 2, packer |-> NewPacker(a.size * 2),
      glyph_cache |-> a.glyph_cache, panicked |-> FALSE]}

\* InnerAtlas::grow: the set of the atlases it may leave
grow(a) ==
    {IF o.panicked
        THEN [a EXCEPT !.panicked = TRUE]
        ELSE [size |-> a.size * 2, packer |-> o.packer,
              glyph_cache |-> o.glyph_cache, panicked |-> FALSE] :
     o \in grow_items(a.glyph_cache, NewPacker(a.size * 2), a.glyph_cache)}

\* InnerAtlas::upload_glyph_to_atlas: allocate, and on failure grow and try
\* again, counting the growths; a surface beyond AtlasSizes is outside the
\* model
RECURSIVE upload_glyph_to_atlas(_, _, _)
upload_glyph_to_atlas(a, glyph_width, glyph_height) ==
    IF a.panicked THEN {[atlas |-> a, rect |-> None, doublings |-> 0]}
    ELSE LET rs == allocate(a.packer, glyph_width, glyph_height)
         IN  IF rs # {}
             THEN {[atlas |-> [a EXCEPT !.packer = r.packer], rect |-> Some(r.rect),
                    doublings |-> 0] : r \in rs}
             ELSE IF a.size * 2 \notin AtlasSizes THEN {}
             ELSE {[u EXCEPT !.doublings = @ + 1] :
                   u \in UNION {upload_glyph_to_atlas(g, glyph_width, glyph_height) :
                                g \in grow(a)}}

\* get_or_create_glyph that gives the rectangle of an evicted entry back to
\* the packer
get_or_create_glyph_freeing(a, key) ==
    LET g == cache_get(a.glyph_cache, key)
        metrics == rasterize(key)
        freed(u) == {u.atlas.glyph_cache[i].details :
                        i \in CacheCapacity..Len(u.atlas.glyph_cache)}
    IN  IF g.found
        THEN {[atlas |-> [a EXCEPT !.glyph_cache = g.cache],
               details |-> Some(g.details), hit |-> TRUE, doublings |-> 0]}
        ELSE IF metrics.width = 0 \/ metrics.height = 0
        THEN {[atlas |-> a, details |-> None, hit |-> FALSE, doublings |-> 0]}
        ELSE {[atlas |-> [u.atlas EXCEPT
                             !.glyph_cache = cache_put(@, key, u.rect[1]),
                             !.packer = [allocated |-> @.allocated \ freed(u),
                                         free |-> @.free \cup freed(u)]],
               details |-> u.rect, hit |-> FALSE, doublings |-> u.doublings] :
              u \in {v \in upload_glyph_to_atlas(a, metrics.width, metrics.height) :
                        ~v.atlas.panicked}}

\* get_or_create_glyph that enters an empty glyph into the cache
get_or_create_glyph_caching_empty(a, key) ==
    LET g == cache_get(a.glyph_cache, key)
        metrics == rasterize(key)
    IN  IF g.found
        THEN {[atlas |-> [a EXCEPT !.glyph_cache = g.cache],
               details |-> Some(g.details), hit |-> TRUE, doublings |-> 0]}
        ELSE IF metrics.width = 0 \/ metrics.height = 0
        THEN {[atlas |-> [a EXCEPT !.glyph_cache =
                             cache_put(@, key, GlyphDetails(0, 0, 0, 0))],
               details |-> None, hit |-> FALSE, doublings |-> 0]}
        ELSE {[atlas |-> [u.atlas EXCEPT !.glyph_cache =
                             cache_put(@, key, u.rect[1])],
               details |-> u.rect, hit |-> FALSE, doublings |-> u.doublings] :
              u \in {v \in upload_glyph_to_atlas(a, metrics.width, metrics.height) :
                        ~v.atlas.panicked}}

\* InnerAtlas::get_or_create_glyph: the set of its outcomes, each the atlas
\* it leaves and the Option<GlyphDetails> it returns
get_or_create_glyph(a, key) ==
    LET g == cache_get(a.glyph_cache, key)
    IN  IF g.found
        THEN {[atlas |-> [a EXCEPT !.glyph_cache = g.cache],
               details |-> Some(g.details), hit |-> TRUE, doublings |-> 0]}
        ELSE LET metrics == rasterize(key)
             IN  IF metrics.width = 0 \/ metrics.height = 0
                 THEN {[atlas |-> a, details |-> None, hit |-> FALSE,
                        doublings |-> 0]}
                 ELSE {IF u.rect = None
                          THEN [atlas |-> u.atlas, details |-> None, hit |-> FALSE,
                                doublings |-> u.doublings]
                          ELSE [atlas |-> [u.atlas EXCEPT !.glyph_cache =
                                              cache_put(@, key, u.rect[1])],
                                details |-> u.rect, hit |-> FALSE,
                                doublings |-> u.doublings] :
                       u \in upload_glyph_to_atlas(a, metrics.width, metrics.height)}

\* no call has been made
NoCall ==
    [key |-> None, details |-> None, hit |-> FALSE, grew |-> FALSE,
     doublings |-> 0]

\* no frame has been rendered
NoFrame == [cells |-> <<>>, drawn |-> <<>>, panicked |-> FALSE]

\* no rectangle is remembered for any key
NoneIssued == [k \in Keys |-> None]

\* the atlas after construction
InitAtlas ==
    /\ atlas = NewInnerAtlas
    /\ ret = NoCall
    /\ issued = NoneIssued
    /\ held = NoneIssued
    /\ used = <<>>
    /\ handed = {}
    /\ frame = NoFrame

\* the history after a call: remember the rectangle returned for key unless
\* one is remembered already
Remember(h, key, details) ==
    IF details # None /\ h[key] = None THEN [h EXCEPT ![key] = details] ELSE h

\* the history of uses after a call: a key that was returned a rectangle is
\* the latest one used
Touch(u, key, details) ==
    IF details = None THEN u
    ELSE <<key>> \o SelectSeq(u, LAMBDA k : k # key)

\* the rectangles stored in a cache
CachedRects(cache) == {cache[i].details : i \in 1..Len(cache)}

\* the history of rectangles after a call: a growth starts it again from
\* the rectangles the cache holds
Handed(h, o, grew) ==
    (IF grew THEN CachedRects(o.atlas.glyph_cache) ELSE h)
        \cup {o.details[i] : i \in 1..Len(o.details)}

\* the bounds of the model on the atlas an action leads to: the surface is
\* at most maxSize, and the largest surface of the model takes at most
\* MaxAllocs rectangles
AtlasWithinBounds(a, maxSize) ==
    /\ a.size <= maxSize
    /\ a.size = 4 * INITIAL_SIZE => Cardinality(a.packer.allocated) <= MaxAllocs

\* atlas.get_or_create_glyph(key.character, key.font_size, queue, device)
GetOrCreateGlyph(key, maxSize) ==
    /\ ~atlas.panicked /\ ~frame.panicked
    /\ \E o \in get_or_create_glyph(atlas, key) :
          LET grew == o.atlas.size # atlas.size
              kept == [k \in Keys |->
                         IF CacheIndex(atlas.glyph_cache, k) # 0
                            /\ CacheIndex(o.atlas.glyph_cache, k) = 0
                         THEN None ELSE held[k]]
          IN  /\ AtlasWithinBounds(o.atlas, maxSize)
              /\ atlas' = o.atlas
              /\ ret' = [key |-> key, details |-> o.details, hit |-> o.hit,
                         grew |-> grew, doublings |-> o.doublings]
              /\ issued' = Remember(IF grew THEN NoneIssued ELSE issued,
                                    key, o.details)
              /\ held' = Remember(IF grew THEN NoneIssued ELSE kept,
                                  key, o.details)
              /\ used' = Touch(used, key, o.details)
              /\ handed' = Handed(handed, o, grew)
    /\ UNCHANGED <<tvars, frame, xvars>>

\* the font sizes of the lookups of render_char.  The call of render.rs
\* 322-324 hands get_or_create_glyph the character, the queue and the
\* device and no font size, which atlas.rs 92-98 takes as its second
\* argument, and nothing in the source names the value: every lookup is
\* made with any of these sizes
RenderFontSizes == {FONT_SIZE, LARGE_FONT_SIZE}

\* State::render_char: the lookup of the glyph and its unwrap, which panics
\* on None; the outcomes are the atlas left and the rectangle drawn
render_char(a, character) ==
    {[atlas |-> o.atlas, details |-> o.details,
      panicked |-> o.details = None] :
     o \in UNION {get_or_create_glyph(a, CacheKey(character, font_size)) :
                    font_size \in RenderFontSizes}}

\* the loop of State::render over the cells of the text, given by their
\* characters in the order of the iteration: a cell holding '\0' is
\* skipped, every other one goes to render_char; a panic ends the loop
RECURSIVE render(_, _, _)
render(a, cells, drawn) ==
    IF cells = <<>>
    THEN {[atlas |-> a, drawn |-> drawn, panicked |-> FALSE]}
    ELSE IF Head(cells) = 0 THEN render(a, Tail(cells), drawn)
    ELSE UNION {IF c.panicked
                   THEN {[atlas |-> c.atlas, drawn |-> drawn, panicked |-> TRUE]}
                   ELSE render(c.atlas, Tail(cells),
                               Append(drawn, Head(cells))) :
                c \in render_char(a, Head(cells))}

\* state.render(text), the text given by the characters of its cells; the
\* histories are those of single get_or_create_glyph calls and are not
\* kept for the lookups of a frame
Render(cells, maxSize) ==
    /\ ~atlas.panicked /\ ~frame.panicked
    /\ \E o \in render(atlas, cells, <<>>) :
          /\ AtlasWithinBounds(o.atlas, maxSize)
          /\ atlas' = o.atlas
          /\ frame' = [cells |-> cells, drawn |-> o.drawn,
                       panicked |-> o.panicked]
    /\ UNCHANGED <<tvars, ret, issued, held, used, handed, xvars>>

----------------------------------------------------------------------------
(* The Text (text.rs): a flat buffer of cells addressed row * width + col, *)
(* and its iterator.  The methods of Text write the character of a cell   *)
(* only; its colours and style are written through the &mut Cell of        *)
(* get_cell_mut and through the public field `buffer`.                     *)

\* the sizes (width, height) a Text takes
TextDims == {<<1, 1>>, <<2, 1>>, <<1, 2>>, <<2, 2>>}

\* the buffer of a Text holds at most this many cells
MaxTextCells == 4

\* enum Color: Default, and RGB(r, g, b)
ColorDefault == None

ColorRGB(r, g, b) == Some(<<r, g, b>>)

\* Style::default()
DefaultStyle == [bold |-> FALSE, italic |-> FALSE]

\* Cell::default() of text.rs
DefaultTextCell ==
    [character |-> 0, fg_color |-> ColorDefault, bg_color |-> ColorDefault,
     style |-> DefaultStyle]

\* Viewport::new(height, width)
NewViewport(height, width) == [top_row |-> 0, height |-> height, width |-> width]

\* Text::new(width, height): the buffer is empty
NewText(width, height) ==
    [buffer |-> <<>>, width |-> width, height |-> height,
     viewport |-> NewViewport(height, width)]

\* Viewport::scroll_down(amount, buffer_height)
Viewport_scroll_down(v, amount, buffer_height) ==
    [v EXCEPT !.top_row = Min(v.top_row + amount, SatSub(buffer_height, v.height))]

\* Viewport::scroll_up(amount, buffer_height)
Viewport_scroll_up(v, amount, buffer_height) ==
    [v EXCEPT !.top_row = SatSub(v.top_row, amount)]

\* Text::get_cell(row, col): buffer.get(row * width + col)
get_cell(t, row, col) ==
    IF row * t.width + col < Len(t.buffer)
    THEN Some(t.buffer[row * t.width + col + 1])
    ELSE None

\* Text::insert_char(row, col, c): the cell at row * width + col gets the
\* character; default cells are pushed first while the buffer is too short
Text_insert_char(t, row, col, c) ==
    LET index == row * t.width + col
    IN  IF index < Len(t.buffer)
        THEN [t EXCEPT !.buffer[index + 1].character = c]
        ELSE [t EXCEPT !.buffer =
                [i \in 1..(index + 1) |->
                    IF i = index + 1 THEN [DefaultTextCell EXCEPT !.character = c]
                    ELSE IF i <= Len(t.buffer) THEN t.buffer[i]
                    ELSE DefaultTextCell]]

\* Text::push_newline
Text_push_newline(t) ==
    [t EXCEPT !.viewport = Viewport_scroll_down(@, 1, t.height)]

\* Text::push(c): '\n' scrolls the viewport, any other character is
\* inserted at row viewport.top_row and column buffer.len() % width
Text_push(t, c) ==
    IF c = 10 THEN Text_push_newline(t)
    ELSE Text_insert_char(t, t.viewport.top_row, Len(t.buffer) % t.width, c)

\* Text::push_str(s): the characters of s are pushed in their order
RECURSIVE Text_push_str(_, _)
Text_push_str(t, s) ==
    IF s = <<>> THEN t ELSE Text_push_str(Text_push(t, Head(s)), Tail(s))

\* Text::get_cell_mut(row, col): buffer.get_mut(row * width + col); the
\* cell handed out is given by its place in the buffer
get_cell_mut(t, row, col) ==
    IF row * t.width + col < Len(t.buffer)
    THEN Some(row * t.width + col + 1)
    ELSE None

\* Text::scroll_up(amount)
Text_scroll_up(t, amount) ==
    [t EXCEPT !.viewport = Viewport_scroll_up(@, amount, t.height)]

\* Text::scroll_down(amount)
Text_scroll_down(t, amount) ==
    [t EXCEPT !.viewport = Viewport_scroll_down(@, amount, t.height)]

\* Text::resize(new_width, new_height): the cells of the rows and columns
\* that the old and the new size share, read at the old width
Text_resize(t, new_width, new_height) ==
    LET min_height == Min(t.height, new_height)
        min_width  == Min(t.width, new_width)
        cell(k)    == get_cell(t, (k - 1) \div min_width, (k - 1) % min_width)
    IN  [t EXCEPT
            !.buffer = [k \in 1..(min_height * min_width) |->
                          IF cell(k) # None THEN cell(k)[1] ELSE DefaultTextCell],
            !.width = new_width,
            !.height = new_height]

\* IntoIterator for &Text: the iterator starts at row 0, column 0
into_iter == [row |-> 0, col |-> 0]

\* TextIterator::next: None past the last row and at a cell the buffer does
\* not hold; else the triple of the position, and the position advances
TextIterator_next(t, it) ==
    IF it.row >= t.height THEN [item |-> None, it |-> it]
    ELSE IF get_cell(t, it.row, it.col) = None THEN [item |-> None, it |-> it]
    ELSE [item |-> Some(<<it.row, it.col, get_cell(t, it.row, it.col)[1]>>),
          it   |-> IF it.col + 1 >= t.width
                   THEN [row |-> it.row + 1, col |-> 0]
                   ELSE [it EXCEPT !.col = it.col + 1]]

\* Text::new of one of the sizes dims, and no iterator
InitText(dims) ==
    /\ \E d \in dims : text = NewText(d[1], d[2])
    /\ iter = None
    /\ pushed = Some(<<>>)

\* the bounds of the model on a Text: its buffer and its sizes
TextWithinBounds(t) ==
    /\ Len(t.buffer) <= MaxTextCells
    /\ <<t.width, t.height>> \in TextDims

\* Text::as_str: the characters of the buffer in its order
as_str(t) == [i \in 1..Len(t.buffer) |-> t.buffer[i].character]

\* text.push(c); the Text is borrowed while an iterator lives
TextPush(c) ==
    /\ iter = None
    /\ TextWithinBounds(Text_push(text, c))
    /\ IF pushed = None THEN TRUE ELSE Len(pushed[1]) < MaxTextCells
    /\ text' = Text_push(text, c)
    /\ pushed' = IF pushed = None \/ c = 10 THEN None
                 ELSE Some(Append(pushed[1], c))
    /\ UNCHANGED <<tvars, avars, iter>>

\* text.push_str(s)
TextPushStr(s) ==
    /\ iter = None
    /\ TextWithinBounds(Text_push_str(text, s))
    /\ IF pushed = None THEN TRUE ELSE Len(pushed[1]) + Len(s) <= MaxTextCells
    /\ text' = Text_push_str(text, s)
    /\ pushed' = IF pushed = None \/ (\E i \in 1..Len(s) : s[i] = 10) THEN None
                 ELSE Some(pushed[1] \o s)
    /\ UNCHANGED <<tvars, avars, iter>>

\* text.scroll_up(amount)
TextScrollUp(amount) ==
    /\ iter = None
    /\ text' = Text_scroll_up(text, amount)
    /\ pushed' = None
    /\ UNCHANGED <<tvars, avars, iter>>

\* text.scroll_down(amount)
TextScrollDown(amount) ==
    /\ iter = None
    /\ text' = Text_scroll_down(text, amount)
    /\ pushed' = None
    /\ UNCHANGED <<tvars, avars, iter>>

\* if let Some(c) = text.get_cell_mut(row, col) { *c = cell }
TextGetCellMut(row, col, cell) ==
    /\ iter = None
    /\ \E m \in {get_cell_mut(text, row, col)} :
          text' = IF m = None THEN text
                  ELSE [text EXCEPT !.buffer[m[1]] = cell]
    /\ pushed' = None
    /\ UNCHANGED <<tvars, avars, iter>>

\* text.buffer is written through the public field: buffer.clear(),
\* buffer.pop() or buffer.push(cell)
TextBufferWrite(cell) ==
    /\ iter = None
    /\ \E buf \in {<<>>, SubSeq(text.buffer, 1, Len(text.buffer) - 1),
                    Append(text.buffer, cell)} :
          /\ Len(buf) <= MaxTextCells
          /\ text' = [text EXCEPT !.buffer = buf]
    /\ pushed' = None
    /\ UNCHANGED <<tvars, avars, iter>>

\* text.insert_char(row, col, c)
TextInsertChar(row, col, c) ==
    /\ iter = None
    /\ TextWithinBounds(Text_insert_char(text, row, col, c))
    /\ text' = Text_insert_char(text, row, col, c)
    /\ pushed' = None
    /\ UNCHANGED <<tvars, avars, iter>>

\* text.resize(new_width, new_height)
TextResize(new_width, new_height) ==
    /\ iter = None
    /\ TextWithinBounds(Text_resize(text, new_width, new_height))
    /\ text' = Text_resize(text, new_width, new_height)
    /\ pushed' = None
    /\ UNCHANGED <<tvars, avars, iter>>

\* (&text).into_iter(): a new iteration; an earlier iterator is dropped
IntoIter ==
    /\ iter' = Some([it |-> into_iter, yielded |-> <<>>, done |-> FALSE])
    /\ UNCHANGED <<tvars, avars, text, pushed>>

\* iterator.next()
IterNext ==
    /\ iter # None
    /\ \E n \in {TextIterator_next(text, iter[1].it)} :
          iter' = Some([it |-> n.it,
                        yielded |-> iter[1].yielded \o n.item,
                        done |-> n.item = None])
    /\ UNCHANGED <<tvars, avars, text, pushed>>

\* the iterator goes out of scope
IterDrop ==
    /\ iter # None
    /\ iter' = None
    /\ UNCHANGED <<tvars, avars, text, pushed>>

----------------------------------------------------------------------------
(* The state machine of one Terminal.                                      *)

\* the scrollback is capped at this many rows
MaxRows == 2

\* at most this many values are completed by ';' or ':' in one sequence
MaxParams == 1

\* the values a CSI parameter takes while its digits arrive
ParamValues == {0, 1, 2, 3, 4, 31}

\* the viewport sizes (width, height) a Terminal is created with
Dims == {<<2, 2>>, <<1, 1>>}

\* The input alphabet follows the decoder, so that the printed text stays
\* 'X' and every kind of sequence is fed: in Ground the text 'X', the
\* handled controls LF CR BS TAB, the unhandled BEL, and ESC; after ESC the
\* introducers '[' ']' 'P' and the escape finals 'B' 'c'; inside a CSI the
\* digits '1' '2', the finals A B C D H J K P r and the unrecognised 'z';
\* inside a string 'X' and its terminators; LF, CAN and ESC inside a CSI
Bytes ==
    CASE parser.state = "Ground"   -> {88, 10, 13, 8, 9, 7, 27}
      [] parser.state = "Escape"   -> {91, 93, 80, 66, 99, 24, 27}
      [] parser.state \in {"CsiEntry", "CsiParam"} ->
            {49, 50, 65, 66, 67, 68, 72, 74, 75, 80, 114, 122, 10, 24, 27}
      [] parser.state = "OscString" -> {88, 7, 27}
      [] parser.state = "DcsEntry" -> {113, 24, 27}
      [] parser.state = "DcsPassthrough" -> {88, 24, 27}
      [] OTHER -> {24, 27}

\* wheel deltas in halves of a row: -2.5 .. 2.5
Deltas == (0 - 5)..5

\* the Terminal of the current state, with an empty callback log
Cur == Term(buffer, parser, <<>>)

\* the states in which a sequence is being collected; in the others the
\* parameters are those of the last dispatch, pending value included
Collecting(state) ==
    state \in {"Escape", "EscapeIntermediate", "CsiEntry", "CsiParam",
               "CsiIntermediate", "DcsEntry", "DcsParam", "DcsIntermediate"}

\* the bounds of the model, as a guard on the state an action leads to
WithinBounds(t, maxRows) ==
    /\ Len(t.buffer.rows) <= maxRows
    /\ t.parser.param \in ParamValues
    /\ ParamsLen(t.parser.params)
          <= MaxParams + (IF Collecting(t.parser.state) THEN 0 ELSE 1)

\* Terminal::new(w, h) for (w, h) in dims
InitTerminal(dims) ==
    /\ \E d \in dims : buffer = NewTextBuffer(d[1], d[2])
    /\ parser = NewParser
    /\ InitAtlas
    /\ InitText({<<2, 2>>})

Init == InitTerminal(Dims)

\* terminal.process_input(input)
ProcessInput(input, maxRows) ==
    \E t \in {process_input(Cur, input)} :
        /\ WithinBounds(t, maxRows)
        /\ buffer' = t.buffer
        /\ parser' = t.parser
        /\ UNCHANGED <<avars, xvars>>

\* terminal.scroll_buffer(delta)
ScrollBuffer(delta) ==
    \E t \in {scroll_buffer(Cur, delta)} :
        /\ buffer' = t.buffer
        /\ parser' = t.parser
        /\ UNCHANGED <<avars, xvars>>

Next ==
    \/ \E b \in Bytes : ProcessInput(<<b>>, MaxRows)
    \/ \E d \in Deltas : ScrollBuffer(d)

Spec == Init /\ [][Next]_vars

----------------------------------------------------------------------------
(* A deep scrollback under a narrow viewport, for the wheel.               *)

\* the scrollback cap of the scrolling model
MaxScrollRows == 7

ScrollDims == {<<2, 2>>, <<1, 3>>}

\* text and line feeds only
ScrollBytes == {88, 10}

\* wheel deltas in halves of a row: -6.5 .. 6.5, beyond the clamp on both sides
WheelDeltas == (0 - 13)..13

InitScroll == InitTerminal(ScrollDims)

NextScroll ==
    \/ \E b \in ScrollBytes : ProcessInput(<<b>>, MaxScrollRows)
    \/ \E d \in WheelDeltas : ScrollBuffer(d)

SpecScroll == InitScroll /\ [][NextScroll]_vars

----------------------------------------------------------------------------
(* Attributes: one line of two cells, text, cursor-left and CSI m.         *)

SgrDims == {<<2, 1>>}

\* 'X', BS and ESC in Ground; '[' after ESC; inside a CSI the digits
\* '0' '1' '3' '4', the separators ';' and ':', and the final 'm'
SgrBytes ==
    CASE parser.state = "Ground" -> {88, 8, 27}
      [] parser.state = "Escape" -> {91}
      [] OTHER -> {48, 49, 51, 52, 58, 59, 109}

InitSgr == InitTerminal(SgrDims)

NextSgr == \E b \in SgrBytes : ProcessInput(<<b>>, MaxRows)

SpecSgr == InitSgr /\ [][NextSgr]_vars

----------------------------------------------------------------------------
(* Chunked input: text, a two-byte UTF-8 character and CSI 1 m arriving    *)
(* one byte per call.                                                      *)

SplitDims == {<<2, 1>>, <<1, 1>>}

\* 'X', ESC and the UTF-8 lead 0xC3 in Ground; the continuation 0xA9 or a
\* stray 'X' after the lead; '[' after ESC; '1', 'm' and ESC inside a CSI
SplitBytes ==
    CASE parser.state = "Ground" -> {88, 27, 195}
      [] parser.state = "Utf8"   -> {169, 88}
      [] parser.state = "Escape" -> {91}
      [] OTHER -> {49, 109, 27}

InitSplit == InitTerminal(SplitDims)

NextSplit == \E b \in SplitBytes : ProcessInput(<<b>>, MaxRows)

SpecSplit == InitSplit /\ [][NextSplit]_vars

----------------------------------------------------------------------------
(* Cursor addressing: text and the CSI sequences A B C D H f with up to    *)
(* two parameters, on a viewport of three columns and two lines.           *)

CursorDims == {<<3, 2>>}

\* 'X' and ESC in Ground; '[' after ESC; inside a CSI the digits '1' '2'
\* '3', the separators ';' and ':', and the finals A B C D H f
CursorBytes ==
    CASE parser.state = "Ground" -> {88, 27}
      [] parser.state = "Escape" -> {91}
      [] OTHER -> {49, 50, 51, 58, 59, 65, 66, 67, 68, 72, 102}

InitCursor == InitTerminal(CursorDims)

NextCursor == \E b \in CursorBytes : ProcessInput(<<b>>, MaxRows)

SpecCursor == InitCursor /\ [][NextCursor]_vars

----------------------------------------------------------------------------
(* Erasing and deleting: text on two lines of three columns, the cursor    *)
(* moved by BS, LF and CSI A, and the CSI sequences K, J and P with the    *)
(* parameters 0 to 3.                                                      *)

EraseDims == {<<3, 2>>}

\* 'X', BS, LF and ESC in Ground; '[' after ESC; inside a CSI the digits
\* '1' '2' '3' and the finals A J K P
EraseBytes ==
    CASE parser.state = "Ground" -> {88, 8, 10, 27}
      [] parser.state = "Escape" -> {91}
      [] OTHER -> {49, 50, 51, 65, 74, 75, 80}

InitErase == InitTerminal(EraseDims)

NextErase == \E b \in EraseBytes : ProcessInput(<<b>>, MaxRows)

SpecErase == InitErase /\ [][NextErase]_vars

----------------------------------------------------------------------------
(* Tabs: a viewport wider than one tab stop, text, line feeds and tabs.    *)

TabDims == {<<9, 2>>}

\* 'X', LF and TAB
TabBytes == {88, 10, 9}

InitTab == InitTerminal(TabDims)

NextTab == \E b \in TabBytes : ProcessInput(<<b>>, MaxRows)

SpecTab == InitTab /\ [][NextTab]_vars

----------------------------------------------------------------------------
(* The glyph atlas under get_or_create_glyph calls on every key.           *)

AtlasDims == {<<1, 1>>}

InitGlyphs == InitTerminal(AtlasDims)

\* the keys of the letters and the space
LetterKeys == Keys \ {LargeKey}

NextGlyphs == \E key \in LetterKeys : GetOrCreateGlyph(key, 2 * INITIAL_SIZE)

SpecAtlas == InitGlyphs /\ [][NextGlyphs]_vars

----------------------------------------------------------------------------
(* A Text that is filled, resized and iterated.                            *)

TextChars == {97, 10}

\* the strings pushed in one call: "aa" and "a\n"
TextStrs == {<<97, 97>>, <<97, 10>>}

\* the scroll amounts
ScrollAmounts == 0..2

\* the cell written through get_cell_mut and the public buffer: 'c', bold
\* and italic, red on blue
StyledCell ==
    [character |-> 99, fg_color |-> ColorRGB(255, 0, 0),
     bg_color |-> ColorRGB(0, 0, 255),
     style |-> [bold |-> TRUE, italic |-> TRUE]]

NextText ==
    \/ \E c \in TextChars : TextPush(c)
    \/ \E s \in TextStrs : TextPushStr(s)
    \/ \E row \in 0..1, col \in 0..1 : TextInsertChar(row, col, 98)
    \/ \E row \in 0..1, col \in 0..1 : TextGetCellMut(row, col, StyledCell)
    \/ TextBufferWrite(StyledCell)
    \/ \E d \in TextDims : TextResize(d[1], d[2])
    \/ \E amount \in ScrollAmounts : TextScrollUp(amount)
    \/ \E amount \in ScrollAmounts : TextScrollDown(amount)
    \/ IntoIter
    \/ IterNext
    \/ IterDrop

InitTexts ==
    /\ \E d \in AtlasDims : buffer = NewTextBuffer(d[1], d[2])
    /\ parser = NewParser
    /\ InitAtlas
    /\ InitText(TextDims)

SpecText == InitTexts /\ [][NextText]_vars

----------------------------------------------------------------------------
(* A freshly created Text that is only pushed into.                        *)

\* the characters pushed: 'a' and 'b'
PushChars == {97, 98}

\* the strings pushed in one call: "ab" and "ba"
PushStrs == {<<97, 98>>, <<98, 97>>}

NextPush ==
    \/ \E c \in PushChars : TextPush(c)
    \/ \E s \in PushStrs : TextPushStr(s)

SpecPush == InitTexts /\ [][NextPush]_vars

----------------------------------------------------------------------------
(* The atlas through two doublings: three letters, the space and the large *)
(* 'W', which one request takes from the initial surface to the largest.   *)

GrowKeys == {CacheKey(c, FONT_SIZE) : c \in {65, 66, 67, 32}} \cup {LargeKey}

NextGrow == \E key \in GrowKeys : GetOrCreateGlyph(key, 4 * INITIAL_SIZE)

SpecGrow == InitGlyphs /\ [][NextGrow]_vars

----------------------------------------------------------------------------
(* The renderer drawing frames of a few cells.                             *)

\* the cells of a frame hold '\0', the letter 'A' or 'B', or the space
FrameCells == {0, 65, 66, 32}

\* a frame holds at most this many cells
MaxCells == 2

Frames == UNION {[1..n -> FrameCells] : n \in 1..MaxCells}

NextRender == \E cells \in Frames : Render(cells, 4 * INITIAL_SIZE)

SpecRender == InitGlyphs /\ [][NextRender]_vars

----------------------------------------------------------------------------
(* Properties.                                                             *)

\* the screen state and the retained decoder state of two Terminals agree
SameTerminal(t1, t2) == t1.buffer = t2.buffer /\ t1.parser = t2.parser

\* the part of the decoder state that later bytes are decoded from: outside
\* a sequence the parameters, intermediates and ignore flag of the last
\* dispatch are still stored, and nothing reads them before the next Clear
LiveParser(p) == IF Collecting(p.state) THEN p ELSE ClearParams(p)

\* the screen state of two Terminals agrees and every later byte is decoded
\* alike by both
SameDecoding(t1, t2) ==
    t1.buffer = t2.buffer /\ LiveParser(t1.parser) = LiveParser(t2.parser)

\* the longest input of the chunking property
MaxInput == 2

\* the bytes of the chunked inputs: 'X', ESC, '[', '1', 'm', and the two
\* bytes of U+00E9
SplitAlphabet == {88, 27, 91, 49, 109, 195, 169}

\* every input of at most MaxInput bytes
SplitInputs == UNION {[1..n -> SplitAlphabet] : n \in 0..MaxInput}

\* C1: for every input b and split point k, process_input(b[0..k]) followed
\* by process_input(b[k..]) leaves the same screen state and decoder state
\* as one process_input(b), from every reachable state
C1_SplitInvariance ==
    \A b \in SplitInputs :
        LET whole == process_input(Cur, b)
        IN  \A k \in 0..Len(b) :
                LET first == process_input(Cur, SubSeq(b, 1, k))
                    both  == process_input(Term(first.buffer, first.parser, <<>>),
                                           SubSeq(b, k + 1, Len(b)))
                IN  SameTerminal(both, whole)

\* C1: the calls so far ended inside CSI 1 m, after its parameter; the 'm'
\* of a later call completes the sequence and sets bold on the cursor cell
C1_Witness ==
    /\ parser.state = "CsiParam"
    /\ parser.param = 1
    /\ HasCursorCell(buffer)
    /\ ~ViewCell(buffer, buffer.cursor_x, buffer.cursor_y).bold
    /\ LET t == process_input(Cur, <<109>>)
       IN  /\ t.parser.state = "Ground"
           /\ ViewCell(t.buffer, buffer.cursor_x, buffer.cursor_y).bold

\* C2: after every decoder dispatch the cursor lies inside the viewport
C2_CursorInBounds ==
    /\ buffer.cursor_x >= 0 /\ buffer.cursor_x < buffer.width
    /\ buffer.cursor_y >= 0 /\ buffer.cursor_y < buffer.height

\* C2: the viewport has scrolled and the cursor sits in its last cell
C2_Witness ==
    /\ buffer.width = 2 /\ buffer.height = 2
    /\ buffer.viewport_top = 1
    /\ buffer.cursor_x = 1 /\ buffer.cursor_y = 1

\* C3: Print(c) with the cursor at (x, y) stores c at column x of scrollback
\* row viewport_top + y, so that the cell reads c afterwards
C3_PrintStoresAtCursor ==
    LET b2 == print(buffer, 88)
        r  == buffer.viewport_top + buffer.cursor_y
        x  == buffer.cursor_x
    IN  /\ r < Len(b2.rows)
        /\ x < Len(b2.rows[r + 1])
        /\ b2.rows[r + 1][x + 1].char = 88

\* C4: Print moves the cursor right; at the last column it wraps to the
\* next line; on the last line it scrolls the viewport by exactly one row
C4_PrintAdvancesCursor ==
    LET b2 == print(buffer, 88)
        x  == buffer.cursor_x
        y  == buffer.cursor_y
    IN  IF x + 1 < buffer.width
        THEN /\ b2.cursor_x = x + 1 /\ b2.cursor_y = y
             /\ b2.viewport_top = buffer.viewport_top
        ELSE IF y + 1 < buffer.height
        THEN /\ b2.cursor_x = 0 /\ b2.cursor_y = y + 1
             /\ b2.viewport_top = buffer.viewport_top
        ELSE /\ b2.cursor_x = 0 /\ b2.cursor_y = buffer.height - 1
             /\ b2.viewport_top = buffer.viewport_top + 1

\* C5: after CSI 1 m and then Print('X'), the cell that holds the 'X' is bold
C5_BoldThenPrint ==
    parser.state = "Ground" =>
        LET t == process_input(Cur, <<27, 91, 49, 109, 88>>)
            x == buffer.cursor_x
            y == buffer.cursor_y
            r == buffer.viewport_top + y
        IN  (r < Len(t.buffer.rows) /\ x < Len(t.buffer.rows[r + 1])
                /\ t.buffer.rows[r + 1][x + 1].char = 88)
            => t.buffer.rows[r + 1][x + 1].bold

\* every cell of the visible viewport reads as the default cell
ViewportBlank(b) ==
    \A y \in 0..(b.height - 1) : \A x \in 0..(b.width - 1) :
        ViewCell(b, x, y) = DefaultCell

\* C6: after CSI 2 J is dispatched, every cell of the visible viewport reads
\* as the default empty cell
C6_EraseDisplay ==
    /\ ViewportBlank(csi_dispatch(buffer, <<<<2>>>>, 74))
    /\ parser.state = "Ground" =>
            ViewportBlank(process_input(Cur, <<27, 91, 50, 74>>).buffer)

\* C6: the viewport has scrolled, its first line is full of text, and the
\* decoder stands before the final of CSI 2 J, which blanks the viewport
C6_Witness ==
    /\ parser.state = "CsiParam" /\ parser.param = 2
    /\ buffer.viewport_top = 1
    /\ buffer.width = 2
    /\ \A x \in 0..(buffer.width - 1) : ViewCell(buffer, x, 0).char = 88
    /\ ViewportBlank(advance(Cur, 74).buffer)

\* the whole rows of a wheel delta given in halves
Rows(d) == IF d >= 0 THEN d \div 2 ELSE 0 - ((0 - d) \div 2)

\* C7 as stated: a positive delta increases viewport_top by delta, clamped to
\* scrollback_length - height; a negative delta decreases it, clamped at 0
C7_ScrollAsStated ==
    \A d \in WheelDeltas :
        LET b2 == scroll_buffer(Cur, d).buffer
            n  == Rows(d)
        IN  /\ n > 0 => b2.viewport_top =
                    Min(buffer.viewport_top + n,
                        SatSub(Len(buffer.rows), buffer.height))
            /\ n < 0 => b2.viewport_top = SatSub(buffer.viewport_top, 0 - n)

\* C7 amended: a positive delta decreases viewport_top by the whole rows of
\* min(delta, 5), clamped at 0; a negative delta increases it by the whole
\* rows of min(-delta, 5), clamped to the last scrollback row
C7_ScrollAmended ==
    \A d \in WheelDeltas :
        LET b2 == scroll_buffer(Cur, d).buffer
            n  == Rows(d)
        IN  /\ n > 0 => b2.viewport_top = SatSub(buffer.viewport_top, Min(n, 5))
            /\ n < 0 => b2.viewport_top =
                    Min(buffer.viewport_top + Min(0 - n, 5),
                        SatSub(Len(buffer.rows), 1))

\* C7: from the middle of a deep scrollback one wheel step goes three rows
\* either way, and a long one is cut to five rows or stopped at an end
C7_Witness ==
    /\ Len(buffer.rows) = 7
    /\ buffer.viewport_top = 3
    /\ scroll_buffer(Cur, 6).buffer.viewport_top = 0
    /\ scroll_buffer(Cur, 0 - 6).buffer.viewport_top = 6
    /\ scroll_buffer(Cur, 0 - 13).buffer.viewport_top = 6
    /\ scroll_buffer(Cur, 2).buffer.viewport_top = 2

\* C8: one scroll_buffer call moves viewport_top by at most 5 rows, never
\* down for a positive delta and never up for a negative one, and changes
\* nothing but viewport_top
C8_ScrollFrame ==
    \A d \in WheelDeltas :
        LET t  == scroll_buffer(Cur, d)
            b2 == t.buffer
        IN  /\ b2.viewport_top - buffer.viewport_top <= 5
            /\ buffer.viewport_top - b2.viewport_top <= 5
            /\ d > 0 => b2.viewport_top <= buffer.viewport_top
            /\ d < 0 => b2.viewport_top >= buffer.viewport_top
            /\ b2 = [buffer EXCEPT !.viewport_top = b2.viewport_top]
            /\ t.parser = parser

\* C8: the viewport stands six rows into the scrollback, so that an
\* unclamped delta of 6.5 would move it by six; the clamped one moves it five
C8_Witness ==
    /\ buffer.viewport_top = 6
    /\ scroll_buffer(Cur, 13).buffer.viewport_top = 1
    /\ scroll_buffer(Cur, 13).buffer.rows = buffer.rows

\* the callbacks that are documented as ignored: escape, OSC and DCS
\* dispatches, controls other than LF CR BS TAB, CSI finals without an
\* effect, and CSI m all of whose parameters are unsupported
Ignored(e) ==
    \/ e.kind \in {"esc_dispatch", "osc_dispatch", "hook", "put", "unhook"}
    \/ e.kind = "execute" /\ e.byte \notin {10, 13, 8, 9}
    \/ e.kind = "csi_dispatch"
        /\ e.byte \notin {65, 66, 67, 68, 72, 102, 74, 75, 80, 109}
    \/ e.kind = "csi_dispatch" /\ e.byte = 109
        /\ \A i \in 1..Len(e.params) :
              Get0(e.params[i], 0) \notin ({0, 1, 4} \cup (30..37) \cup (40..47))

\* the bytes tried in every state: the 7-bit bytes and ST
ProbeBytes == (0..127) \cup {156}

\* complete sequences that are ignored: BEL, SI, NUL, CAN; CSI z, CSI 2 z,
\* CSI 2 r, CSI 2 m; ESC c, ESC B; OSC X BEL; DCS q X ST
IgnoredSeqs ==
    {<<7>>, <<15>>, <<0>>, <<24>>, <<27, 91, 122>>, <<27, 91, 50, 122>>,
     <<27, 91, 50, 114>>, <<27, 91, 50, 109>>, <<27, 99>>, <<27, 66>>,
     <<27, 93, 88, 7>>, <<27, 80, 113, 88, 27, 92>>}

\* what follows an ignored sequence: text, a control, the start of a
\* sequence, a whole sequence, the final of a sequence
FollowUps == {<<88>>, <<10>>, <<27>>, <<27, 91, 50, 74>>, <<9, 88>>, <<74>>}

\* an ignored dispatch leaves the rows, the cursor and viewport_top as they
\* were
IgnoredDispatchKeepsBuffer ==
    \A byte \in ProbeBytes : \A t \in {advance(Cur, byte)} :
        (t.events # <<>> /\ \A i \in 1..Len(t.events) : Ignored(t.events[i]))
            => t.buffer = buffer

\* the Terminal after each of the follow-ups alone
Undisturbed == [f \in FollowUps |-> process_input(Cur, f)]

\* the bytes after the ignored sequence s are decoded as if s had not been
\* in the stream: s leaves the buffer as it was, and each follow-up after s
\* leaves the Terminal that it leaves alone, undisturbed[f]
DecodedAsIfAbsent(s, undisturbed) ==
    \A ts \in {process_input(Cur, s)} :
        /\ ts.buffer = buffer
        /\ \A f \in FollowUps :
              SameDecoding(process_input(Term(ts.buffer, ts.parser, <<>>), f),
                           undisturbed[f])

\* C9 as stated: an ignored dispatch leaves the rows, the cursor and
\* viewport_top as they were, and wherever an ignored sequence stands in the
\* stream the bytes that follow are decoded as if it had not been there
C9_IgnoredAsStated ==
    /\ IgnoredDispatchKeepsBuffer
    /\ \A u \in {Undisturbed} : \A s \in IgnoredSeqs : DecodedAsIfAbsent(s, u)

\* C9 amended: an ignored dispatch leaves the rows, the cursor and
\* viewport_top as they were; the bytes that follow are decoded as if the
\* ignored sequence had not been in the stream when it begins in the ground
\* state, or is a control other than CAN and SUB executed inside a sequence
C9_IgnoredSequences ==
    /\ IgnoredDispatchKeepsBuffer
    /\ \A u \in {Undisturbed} :
          IF parser.state = "Ground"
          THEN \A s \in IgnoredSeqs : DecodedAsIfAbsent(s, u)
          ELSE \A s \in {<<7>>, <<15>>, <<0>>} :
                  process_input(Cur, s).events = <<Event("execute", s[1], <<>>)>>
                      => DecodedAsIfAbsent(s, u)

\* C9: text is on the screen, the cursor is away from the origin, and the
\* decoder stands before the final of CSI 2 z, whose dispatch changes nothing
C9_Witness ==
    /\ parser.state = "CsiParam" /\ parser.param = 2
    /\ buffer.rows # <<>> /\ buffer.cursor_x = 1 /\ buffer.cursor_y = 1
    /\ LET t == advance(Cur, 122)
       IN  /\ t.events = <<Event("csi_dispatch", 122, <<<<2>>>>)>>
           /\ t.buffer = buffer
           /\ t.parser.state = "Ground"

\* C10 as stated: while no growth occurs, every call for a key with a
\* non-empty rasterization returns the rectangle that the first call for
\* the key returned
C10_SameRectAsStated ==
    ret.details # None => ret.details = issued[ret.key]

\* C10 amended: while no growth occurs and the key is not evicted from the
\* cache, every call for a key with a non-empty rasterization returns the
\* rectangle that the first call for the key returned
C10_SameRectWhileCached ==
    ret.details # None => ret.details = held[ret.key]

\* C10: a call hit the cache and returned the rectangle of the key's first
\* call, in an atlas that has not grown and holds the rectangle of an
\* evicted entry besides those of a full cache
C10_Witness ==
    /\ ret.hit /\ ~ret.grew
    /\ ret.details = held[ret.key]
    /\ Len(atlas.glyph_cache) = CacheCapacity
    /\ Cardinality(atlas.packer.allocated) > CacheCapacity
    /\ atlas.glyph_cache[1].key = ret.key

----------------------------------------------------------------------------
(* The atlas across a growth.                                              *)

\* the keys of a cache
CachedKeys(cache) == {cache[i].key : i \in 1..Len(cache)}

\* the allocation of a glyph of some key fails in atlas a, which is when
\* upload_glyph_to_atlas calls grow
AllocationFails(a) ==
    \E k \in Keys :
        /\ rasterize(k).width > 0
        /\ allocate(a.packer, rasterize(k).width, rasterize(k).height) = {}

\* r lies within a square surface of the given size
Within(r, size) == r.x + r.width <= size /\ r.y + r.height <= size

\* C11: immediately after a growth the surface is exactly twice as large,
\* every key cached before is still cached, every stored rectangle is one
\* allocated from the new packer and lies within the new surface, and no
\* two cached rectangles overlap
C11_GrowthRepacks ==
    AllocationFails(atlas) =>
        \A g \in grow(atlas) :
            ~g.panicked =>
                /\ g.size = 2 * atlas.size
                /\ CachedKeys(atlas.glyph_cache) \subseteq CachedKeys(g.glyph_cache)
                /\ \A i \in 1..Len(g.glyph_cache) :
                      /\ g.glyph_cache[i].details \in g.packer.allocated
                      /\ Within(g.glyph_cache[i].details, g.size)
                      /\ \A j \in 1..Len(g.glyph_cache) :
                            i # j => ~Overlap(g.glyph_cache[i].details,
                                              g.glyph_cache[j].details)

\* a full cache in a surface of twice the initial size that has no room
\* for a letter, which grow re-packs into a surface of four times the size
\* with another rectangle for some key
C11_Witness ==
    /\ atlas.size = 2 * INITIAL_SIZE
    /\ Len(atlas.glyph_cache) = CacheCapacity
    /\ allocate(atlas.packer, 1, 1) = {}
    /\ \E g \in grow(atlas) :
          /\ g.size = 4 * INITIAL_SIZE
          /\ \E e \in CachedRects(atlas.glyph_cache) :
                e \notin CachedRects(g.glyph_cache)

----------------------------------------------------------------------------
(* Empty glyphs.                                                           *)

\* the rasterization of key has no area
ZeroArea(key) == rasterize(key).width = 0 \/ rasterize(key).height = 0

\* C12: get_or_create_glyph for a character whose rasterization has width
\* 0 or height 0 returns None and leaves the cache with its order, the
\* packer and the surface size as they were; and a call that returns None
\* is one for such a character
C12_EmptyGlyph ==
    \A key \in Keys :
        \A o \in get_or_create_glyph(atlas, key) :
            /\ ZeroArea(key) =>
                  /\ o.details = None
                  /\ o.atlas.glyph_cache = atlas.glyph_cache
                  /\ o.atlas.packer = atlas.packer
                  /\ o.atlas.size = atlas.size
            /\ (o.details = None /\ ~o.atlas.panicked) => ZeroArea(key)

\* the space has been looked up with a full cache and None was returned,
\* and from this state a letter that is not cached is returned a rectangle
C12_Witness ==
    /\ ret.key = CacheKey(32, FONT_SIZE)
    /\ ret.details = None
    /\ Len(atlas.glyph_cache) = CacheCapacity
    /\ \E key \in LetterKeys :
          /\ CacheIndex(atlas.glyph_cache, key) = 0
          /\ \E o \in get_or_create_glyph(atlas, key) : o.details # None

----------------------------------------------------------------------------
(* The renderer and empty glyphs.                                          *)

\* the cell holds a character and its glyph is not empty
Drawable(c) ==
    c # 0 /\ \A font_size \in RenderFontSizes : ~ZeroArea(CacheKey(c, font_size))

\* C13: a cell that is not '\0' and whose glyph lookup returns None is
\* drawn as nothing and the loop goes on: the frame is not aborted, and it
\* draws every cell of the text that has a glyph to draw
C13_EmptyLookupDrawsNothing ==
    /\ ~frame.panicked
    /\ frame.drawn = SelectSeq(frame.cells, Drawable)

----------------------------------------------------------------------------
(* The capacity of the cache and the entry it evicts.                      *)

\* the cached key whose last use, a hit or its insertion, is the oldest
LeastRecentlyUsed ==
    LET c == SelectSeq(used, LAMBDA k : k \in CachedKeys(atlas.glyph_cache))
    IN  c[Len(c)]

\* C14: the cache never holds more than its capacity, and a call that
\* inserts a new key into a full cache removes exactly one entry, the one
\* used least recently, hits and insertions counting as uses
C14_EvictsLeastRecentlyUsed ==
    /\ Len(atlas.glyph_cache) <= CacheCapacity
    /\ Len(atlas.glyph_cache) = CacheCapacity =>
          \A key \in Keys :
              \A o \in get_or_create_glyph(atlas, key) :
                  (~o.hit /\ o.details # None) =>
                      CachedKeys(o.atlas.glyph_cache) =
                          (CachedKeys(atlas.glyph_cache) \ {LeastRecentlyUsed})
                              \cup {key}

----------------------------------------------------------------------------
(* Evictions and the packer.                                               *)

\* C15: an eviction removes the lookup entry only: every rectangle handed
\* out since the last growth is still allocated in the packer, a call that
\* does not grow the surface takes no rectangle from the packer, and the
\* rectangle it hands out for a new glyph shares no point with any handed
\* out before, evicted or not
C15_EvictionKeepsRectangles ==
    /\ handed \subseteq atlas.packer.allocated
    /\ \A key \in Keys :
          \A o \in get_or_create_glyph(atlas, key) :
              o.atlas.size = atlas.size =>
                  /\ atlas.packer.allocated \subseteq o.atlas.packer.allocated
                  /\ (~o.hit /\ o.details # None) =>
                        \A q \in handed : ~Overlap(o.details[1], q)

\* a rectangle handed out since the last growth belongs to no entry of the
\* cache any more, and a new glyph is given another one without a growth
C15_Witness ==
    /\ \E q \in handed : q \notin CachedRects(atlas.glyph_cache)
    /\ \E key \in LetterKeys :
          \E o \in get_or_create_glyph(atlas, key) :
              ~o.hit /\ o.details # None /\ o.atlas.size = atlas.size

----------------------------------------------------------------------------
(* Allocation, growth and retry.                                           *)

\* a request is meant to stop after this many doublings
GrowthCap == 1

\* C16: one request performs at most a fixed number of doublings, here
\* GrowthCap, and then returns
C16_GrowthCapped == ret.doublings <= GrowthCap

\* C17: a call whose allocation fails again right after one growth aborts;
\* it does not grow further and returns no value
C17_AbortsAfterOneGrowth ==
    \A key \in Keys :
        \A o \in get_or_create_glyph(atlas, key) :
            o.doublings >= 2 =>
                /\ o.atlas.panicked
                /\ o.details = None
                /\ o.atlas.size = 2 * atlas.size

----------------------------------------------------------------------------
(* The scrollback: its rows and their cells.                               *)

\* row new is row old with some of its cells reset to the default
ErasedInPlace(old, new) ==
    /\ Len(new) = Len(old)
    /\ \A x \in 1..Len(old) : new[x] = old[x] \/ new[x] = DefaultCell

\* the existing rows of old are where they were in new: none but the row
\* of the cursor is changed otherwise than by resetting cells
RowsKept(old, new) ==
    /\ Len(new.rows) >= Len(old.rows)
    /\ \A i \in 1..Len(old.rows) :
          \/ i = old.viewport_top + old.cursor_y + 1
          \/ i = ClampCursorY(old).viewport_top + ClampCursorY(old).cursor_y + 1
          \/ ErasedInPlace(old.rows[i], new.rows[i])

\* C19: no dispatch and no scroll call makes the scrollback shorter or
\* deletes or reorders its rows; a row is appended only by a Print at a
\* cursor past the end of the scrollback, one row for one Print, after the
\* rows that were there; scroll calls leave the rows alone
C19_RowsAppendOnly ==
    /\ \A b \in Bytes :
          \A t \in {advance(Cur, b)} :
              /\ RowsKept(buffer, t.buffer)
              /\ Len(t.buffer.rows) > Len(buffer.rows) =>
                    /\ Len(t.buffer.rows) = Len(buffer.rows) + 1
                    /\ t.events = <<Event("print", b, <<>>)>>
                    /\ SubSeq(t.buffer.rows, 1, Len(buffer.rows)) = buffer.rows
                    /\ t.buffer.rows[Len(t.buffer.rows)] \in {<<>>, <<CellOf(b)>>}
                    /\ Len(buffer.rows) <= ClampCursorY(buffer).viewport_top
                                               + ClampCursorY(buffer).cursor_y
    /\ \A d \in Deltas :
          \A t \in {scroll_buffer(Cur, d)} : t.buffer.rows = buffer.rows

\* the scrollback holds a row with a cell, and printing 'X' appends a row
C19_Witness ==
    /\ parser.state = "Ground"
    /\ Len(buffer.rows) >= 1
    /\ buffer.rows[1] # <<>>
    /\ Len(advance(Cur, 88).buffer.rows) = Len(buffer.rows) + 1

\* the dispatches of t hold a CSI with one of the given final bytes
HasCsi(t, finals) ==
    \E k \in 1..Len(t.events) :
        t.events[k].kind = "csi_dispatch" /\ t.events[k].byte \in finals

\* C20 as stated: no dispatch makes an existing row shorter
C20_CellsNeverRemoved ==
    \A b \in Bytes :
        \A t \in {advance(Cur, b)} :
            \A i \in 1..Len(buffer.rows) :
                Len(t.buffer.rows[i]) >= Len(buffer.rows[i])

\* row new is row old without the count cells from column x on, or without
\* those there are
CellsDeleted(old, new, x, count) ==
    new = SubSeq(old, 1, Min(x, Len(old)))
            \o SubSeq(old, x + Min(count, SatSub(Len(old), x)) + 1, Len(old))

\* C20: cells are removed from a row only by CSI P, which takes as many
\* cells as its parameter says, or those there are, from the cursor on out
\* of the cursor's row and shifts the rest left; under every other dispatch no existing row gets shorter,
\* and the erases CSI K and CSI J only reset cells in place
C20_CellsRemovedOnlyByDelete ==
    \A b \in Bytes :
        \A t \in {advance(Cur, b)} :
            \A i \in 1..Len(buffer.rows) :
                /\ HasCsi(t, {80}) =>
                      IF i = buffer.viewport_top + buffer.cursor_y + 1
                      THEN CellsDeleted(buffer.rows[i], t.buffer.rows[i],
                                        buffer.cursor_x,
                                        FirstParam(t.events[1].params, 1))
                      ELSE t.buffer.rows[i] = buffer.rows[i]
                /\ ~HasCsi(t, {80}) =>
                      Len(t.buffer.rows[i]) >= Len(buffer.rows[i])
                /\ HasCsi(t, {74, 75}) =>
                      ErasedInPlace(buffer.rows[i], t.buffer.rows[i])

\* the cursor is on the first of two cells of a row inside a CSI sequence
\* with the parameter 1: the final byte 'P' leaves the row with one cell,
\* the final byte 'K' leaves it with two
C20_Witness ==
    /\ parser.state = "CsiParam" /\ parser.param = 1
    /\ HasCursorRow(buffer)
    /\ buffer.cursor_x = 0
    /\ Len(buffer.rows[buffer.viewport_top + buffer.cursor_y + 1]) = 2
    /\ Len(advance(Cur, 80).buffer.rows[buffer.viewport_top + buffer.cursor_y + 1]) = 1
    /\ Len(advance(Cur, 75).buffer.rows[buffer.viewport_top + buffer.cursor_y + 1]) = 2

----------------------------------------------------------------------------
(* The iteration of a Text.                                                *)

\* the positions of a Text in row-major order
Positions(t) ==
    [k \in 1..(t.height * t.width) |->
        <<(k - 1) \div t.width, (k - 1) % t.width>>]

\* C21: an iteration that has ended has yielded the positions of the
\* height x width viewport, all of them, in row-major order, each with the
\* cell at that position
C21_IterationCoversViewport ==
    (iter # None /\ iter[1].done) =>
        /\ Len(iter[1].yielded) = Len(Positions(text))
        /\ \A k \in 1..Len(iter[1].yielded) :
              /\ <<iter[1].yielded[k][1], iter[1].yielded[k][2]>> = Positions(text)[k]
              /\ Some(iter[1].yielded[k][3])
                    = get_cell(text, iter[1].yielded[k][1], iter[1].yielded[k][2])

----------------------------------------------------------------------------
(* Cursor addressing and relative cursor movement.                         *)

\* the decoder is inside a CSI sequence: the next final byte dispatches it
InCsi == parser.state \in {"CsiEntry", "CsiParam"}

\* the parameters the sequence has so far, as its final byte hands them over
SequenceParams == PushParam(parser).params

\* the n-th parameter the sequence carries, d when it carries fewer
NthParam(n, d) ==
    IF Len(SequenceParams) < n THEN d ELSE Get0(SequenceParams[n], d)

\* C22: CSI row ; col H (and f) leaves cursor_y = min(row - 1, height - 1)
\* and cursor_x = min(col - 1, width - 1), row the first and col the second
\* parameter of the sequence, each 1 when absent.
C22_CursorPosition ==
    InCsi =>
        \A b \in {72, 102} : \A t \in {advance(Cur, b)} :
            /\ t.buffer.cursor_y = Min(SatSub(NthParam(1, 1), 1), buffer.height - 1)
            /\ t.buffer.cursor_x = Min(SatSub(NthParam(2, 1), 1), buffer.width - 1)

\* the count of a relative movement: the first parameter of the sequence,
\* 1 when the sequence carries no parameter byte
MoveCount == IF parser.state = "CsiEntry" THEN 1 ELSE NthParam(1, 1)

\* C23: CSI n A / B / C / D move cursor_y up, cursor_y down, cursor_x right
\* and cursor_x left by n (the first parameter, 1 when none is given),
\* clamped to the viewport; the scrollback rows and viewport_top are kept.
C23_RelativeMoves ==
    InCsi =>
        \A b \in {65, 66, 67, 68} : \A t \in {advance(Cur, b)} :
            /\ t.buffer.cursor_y =
                    CASE b = 65 -> SatSub(buffer.cursor_y, MoveCount)
                      [] b = 66 -> Min(buffer.cursor_y + MoveCount, buffer.height - 1)
                      [] OTHER  -> buffer.cursor_y
            /\ t.buffer.cursor_x =
                    CASE b = 67 -> Min(buffer.cursor_x + MoveCount, buffer.width - 1)
                      [] b = 68 -> SatSub(buffer.cursor_x, MoveCount)
                      [] OTHER  -> buffer.cursor_x
            /\ t.buffer.rows = buffer.rows
            /\ t.buffer.viewport_top = buffer.viewport_top

----------------------------------------------------------------------------
(* Erase in line, erase in display, delete characters.                     *)

\* the index in rows of the cursor's row
CursorRow(b) == b.viewport_top + b.cursor_y + 1

\* column col of the cursor row is in the range of CSI K with this mode
InLineRange(b, mode, col) ==
    \/ mode = 0 /\ col >= b.cursor_x
    \/ mode = 1 /\ col <= b.cursor_x
    \/ mode = 2

\* only the rows changed between b and c, and of these only row r
OnlyRowChanged(b, c, r) ==
    /\ [c EXCEPT !.rows = b.rows] = b
    /\ Len(c.rows) = Len(b.rows)
    /\ \A i \in 1..Len(b.rows) : i # r => c.rows[i] = b.rows[i]

\* C24: CSI K resets to the default cell exactly the cells of the cursor
\* row in the range of its mode (0: columns >= cursor_x, 1: columns <=
\* cursor_x, 2: all); the length of the row, the other rows, the cursor and
\* viewport_top are kept, and any other mode changes nothing.
C24_EraseInLine ==
    InCsi =>
        \A t \in {advance(Cur, 75)} :
            /\ OnlyRowChanged(buffer, t.buffer, CursorRow(buffer))
            /\ HasCursorRow(buffer) =>
                  /\ Len(t.buffer.rows[CursorRow(buffer)])
                        = Len(buffer.rows[CursorRow(buffer)])
                  /\ \A j \in 1..Len(buffer.rows[CursorRow(buffer)]) :
                        t.buffer.rows[CursorRow(buffer)][j] =
                            IF InLineRange(buffer, NthParam(1, 0), j - 1)
                            THEN DefaultCell
                            ELSE buffer.rows[CursorRow(buffer)][j]

\* inside CSI 1 the cursor is on the second of three written cells: the
\* final byte 'K' resets the first two and keeps the third
C24_Witness ==
    /\ parser.state = "CsiParam" /\ parser.param = 1
    /\ HasCursorRow(buffer)
    /\ buffer.cursor_x = 1
    /\ Len(buffer.rows[CursorRow(buffer)]) = 3
    /\ \A j \in 1..3 : buffer.rows[CursorRow(buffer)][j].char = 88
    /\ \E t \in {advance(Cur, 75)} :
          /\ t.buffer.rows[CursorRow(buffer)][1] = DefaultCell
          /\ t.buffer.rows[CursorRow(buffer)][2] = DefaultCell
          /\ t.buffer.rows[CursorRow(buffer)][3].char = 88

\* column col of row i (an index in rows) is in the range of CSI J with this
\* mode: 0 from the cursor to the end of the screen, 1 from the start of the
\* screen to the cursor
InScreenRange(b, mode, i, col) ==
    \/ mode = 0 /\ (i > CursorRow(b) \/ (i = CursorRow(b) /\ col >= b.cursor_x))
    \/ mode = 1 /\ (i < CursorRow(b) \/ (i = CursorRow(b) /\ col <= b.cursor_x))

\* C25: CSI 0 J resets to the default every cell from the cursor to the end
\* of the screen (the cursor row from cursor_x on and every cell of every
\* later row), CSI 1 J every cell from the start of the screen to the
\* cursor (every cell of every earlier row and the cursor row up to
\* cursor_x); the cells outside that range are unchanged.
C25_EraseInDisplay ==
    (InCsi /\ NthParam(1, 0) \in {0, 1}) =>
        \A t \in {advance(Cur, 74)} :
            /\ Len(t.buffer.rows) = Len(buffer.rows)
            /\ \A i \in 1..Len(buffer.rows) :
                  /\ Len(t.buffer.rows[i]) = Len(buffer.rows[i])
                  /\ \A j \in 1..Len(buffer.rows[i]) :
                        t.buffer.rows[i][j] =
                            IF InScreenRange(buffer, NthParam(1, 0), i, j - 1)
                            THEN DefaultCell
                            ELSE buffer.rows[i][j]

\* C26: CSI n P removes min(n, row length - cursor_x) cells of the cursor
\* row from column cursor_x on and shifts the cells to their right left by
\* that amount, in order and unchanged; the cells left of the cursor, the
\* other rows, the cursor and viewport_top are kept, and with the cursor at
\* or past the end of the row nothing changes.
C26_DeleteCharacters ==
    InCsi =>
        \A t \in {advance(Cur, 80)} :
            /\ OnlyRowChanged(buffer, t.buffer, CursorRow(buffer))
            /\ HasCursorRow(buffer) =>
                  \E k \in {Min(NthParam(1, 1),
                                SatSub(Len(buffer.rows[CursorRow(buffer)]),
                                       buffer.cursor_x))} :
                      /\ Len(t.buffer.rows[CursorRow(buffer)])
                            = Len(buffer.rows[CursorRow(buffer)]) - k
                      /\ \A j \in 1..Len(t.buffer.rows[CursorRow(buffer)]) :
                            t.buffer.rows[CursorRow(buffer)][j] =
                                IF j <= buffer.cursor_x
                                THEN buffer.rows[CursorRow(buffer)][j]
                                ELSE buffer.rows[CursorRow(buffer)][j + k]

\* inside CSI 1 the cursor is on the second of three cells, the first and
\* the second reset and the third written: the final byte 'P' leaves the
\* reset first cell and the written third cell, now in the second column
C26_Witness ==
    /\ parser.state = "CsiParam" /\ parser.param = 1
    /\ HasCursorRow(buffer)
    /\ buffer.cursor_x = 1
    /\ Len(buffer.rows[CursorRow(buffer)]) = 3
    /\ buffer.rows[CursorRow(buffer)][1] = DefaultCell
    /\ buffer.rows[CursorRow(buffer)][2] = DefaultCell
    /\ buffer.rows[CursorRow(buffer)][3].char = 88
    /\ \E t \in {advance(Cur, 80)} :
          /\ Len(t.buffer.rows[CursorRow(buffer)]) = 2
          /\ t.buffer.rows[CursorRow(buffer)][1] = DefaultCell
          /\ t.buffer.rows[CursorRow(buffer)][2].char = 88

----------------------------------------------------------------------------
(* Attributes.                                                             *)

\* the cell with one CSI m parameter applied to it
WithAttribute(cell, p) ==
    CASE p = 0 -> [cell EXCEPT !.bold = FALSE, !.underline = FALSE,
                               !.fg = None, !.bg = None]
      [] p = 1 -> [cell EXCEPT !.bold = TRUE]
      [] p = 4 -> [cell EXCEPT !.underline = TRUE]
      [] p >= 30 /\ p <= 37 -> [cell EXCEPT !.fg = Some(p - 30)]
      [] p >= 40 /\ p <= 47 -> [cell EXCEPT !.bg = Some(p - 40)]
      [] OTHER -> cell

\* the cell with the parameters of a CSI m applied in their order
RECURSIVE WithAttributes(_, _)
WithAttributes(cell, params) ==
    IF params = <<>> THEN cell
    ELSE WithAttributes(WithAttribute(cell, Get0(Head(params), 0)), Tail(params))

\* C27: CSI m changes attributes only of the cell at the cursor (column
\* cursor_x of row viewport_top + cursor_y): 0 resets its bold, underline,
\* fg and bg, 1 sets its bold, 4 its underline, 30-37 its fg, 40-47 its bg;
\* no other cell's attributes and no cell's character change.
C27_AttributesOfCursorCell ==
    InCsi =>
        \A t \in {advance(Cur, 109)} :
            /\ [t.buffer EXCEPT !.rows = buffer.rows] = buffer
            /\ Len(t.buffer.rows) = Len(buffer.rows)
            /\ \A i \in 1..Len(buffer.rows) :
                  /\ Len(t.buffer.rows[i]) = Len(buffer.rows[i])
                  /\ \A j \in 1..Len(buffer.rows[i]) :
                        t.buffer.rows[i][j] =
                            IF i = CursorRow(buffer) /\ j = buffer.cursor_x + 1
                            THEN WithAttributes(buffer.rows[i][j], SequenceParams)
                            ELSE buffer.rows[i][j]

----------------------------------------------------------------------------
(* Tabs.                                                                   *)

\* the next multiple of 8 strictly greater than x
NextTabStop(x) == x + (8 - (x % 8))

\* C28: Execute(tab) moves cursor_x to the next multiple of 8 strictly
\* greater than the column; if that is >= width the cursor wraps to column
\* 0 of the next line, and on the last viewport line the viewport scrolls
\* down by one row and cursor_y stays height - 1.
C28_TabAdvances ==
    parser.state = "Ground" =>
        \A t \in {advance(Cur, 9)} :
            /\ t.buffer.rows = buffer.rows
            /\ IF NextTabStop(buffer.cursor_x) < buffer.width
               THEN /\ t.buffer.cursor_x = NextTabStop(buffer.cursor_x)
                    /\ t.buffer.cursor_y = buffer.cursor_y
                    /\ t.buffer.viewport_top = buffer.viewport_top
               ELSE /\ t.buffer.cursor_x = 0
                    /\ IF buffer.cursor_y + 1 < buffer.height
                       THEN /\ t.buffer.cursor_y = buffer.cursor_y + 1
                            /\ t.buffer.viewport_top = buffer.viewport_top
                       ELSE /\ t.buffer.cursor_y = buffer.height - 1
                            /\ t.buffer.viewport_top = buffer.viewport_top + 1

----------------------------------------------------------------------------
(* Invariants of the scrollback.                                           *)

\* C29: in every state reached by decoder dispatches and scroll calls,
\* every scrollback row holds at most width cells.
C29_RowsWithinWidth ==
    \A i \in 1..Len(buffer.rows) : Len(buffer.rows[i]) <= buffer.width

\* the cursor is on the last cell of a full row of two or more cells, and a
\* Print overwrites that cell without making the row longer
C29_Witness ==
    /\ parser.state = "Ground"
    /\ buffer.width >= 2
    /\ HasCursorCell(buffer)
    /\ buffer.cursor_x = buffer.width - 1
    /\ Len(buffer.rows[CursorRow(buffer)]) = buffer.width
    /\ Len(advance(Cur, 88).buffer.rows[CursorRow(buffer)]) = buffer.width

\* C30: in every state reached by decoder dispatches and scroll_buffer
\* calls, viewport_top is 0 when the scrollback is empty and is otherwise
\* the index of a scrollback row.
C30_ViewportTopValid ==
    IF buffer.rows = <<>>
    THEN buffer.viewport_top = 0
    ELSE buffer.viewport_top < Len(buffer.rows)

\* the viewport is on the last of two or more rows, and neither a line feed
\* on the last viewport line nor the wheel moves it further down
C30_Witness ==
    /\ parser.state = "Ground"
    /\ Len(buffer.rows) >= 2
    /\ buffer.viewport_top = Len(buffer.rows) - 1
    /\ buffer.cursor_y = buffer.height - 1
    /\ advance(Cur, 10).buffer.viewport_top = buffer.viewport_top
    /\ scroll_buffer(Cur, 0 - 2).buffer.viewport_top = buffer.viewport_top

----------------------------------------------------------------------------
(* The wheel and the output.                                               *)

\* the index in rows of the row the next Print writes: insert_char clamps
\* the cursor line and then takes rows[viewport_top + cursor_y]
WriteRow(b) == CursorRow(ClampCursorY(b))

\* C31: scroll_buffer does not change where output is written: the
\* scrollback row that receives the next printed character is the same
\* before and after any scroll_buffer call.
C31_ScrollKeepsWriteRow ==
    \A d \in WheelDeltas :
        \A t \in {scroll_buffer(Cur, d)} :
            WriteRow(t.buffer) = WriteRow(buffer)

----------------------------------------------------------------------------
(* The recency order of the cache across a growth.                         *)

\* the keys of a cache in its order, most recently used first
KeyOrder(cache) == [i \in 1..Len(cache) |-> cache[i].key]

\* C32: a growth does not change the recency order of the cache entries:
\* of any two cached keys, the one used less recently before grow() is
\* still the one used less recently after it.
C32_GrowthKeepsRecency ==
    AllocationFails(atlas) =>
        \A g \in grow(atlas) :
            ~g.panicked => KeyOrder(g.glyph_cache) = KeyOrder(atlas.glyph_cache)

----------------------------------------------------------------------------
(* Resizing a Text and pushing into a Text.                                *)

\* C33: Text::resize(new_width, new_height) preserves every cell whose
\* (row, column) lies within both the old and the new dimensions:
\* get_cell(row, column) after the resize returns the cell it returned
\* before.
C33_ResizeKeepsCells ==
    \A d \in TextDims :
        \A t \in {Text_resize(text, d[1], d[2])} :
            \A row \in 0..(Min(text.height, d[2]) - 1) :
                \A col \in 0..(Min(text.width, d[1]) - 1) :
                    get_cell(text, row, col) # None =>
                        get_cell(t, row, col) = get_cell(text, row, col)

\* C34: pushing n <= width * height characters other than the newline one
\* after another into a freshly created Text stores them in consecutive
\* cells in push order, none overwriting an earlier one, so that as_str()
\* returns exactly the pushed string.
C34_PushAppends ==
    (pushed # None /\ Len(pushed[1]) <= text.width * text.height) =>
        as_str(text) = pushed[1]


============================================================================
